---- MODULE Spec2Model ----
(***************************************************************************)
(* dcmrig: DICOM anonymization / deidentification.                         *)
(*                                                                         *)
(* A string is a sequence of one-character strings, so that split, join,   *)
(* len, replace and slicing are computed as the code computes them.        *)
(* A DICOM object is a function from tags <<group, element>> to elements;  *)
(* an element is [vr, val, items]: val is the rendering to_str() gives,    *)
(* items the nested objects of a sequence (SQ) element.                    *)
(***************************************************************************)
EXTENDS Integers, Sequences, FiniteSets, TLC

\* ------------------------------------------------------------------------
\* Bounds of the model
\* ------------------------------------------------------------------------
NumFiles == 3

NumThreads == 2

\* ------------------------------------------------------------------------
\* Strings
\* ------------------------------------------------------------------------
RECURSIVE SplitAcc(_, _, _)
SplitAcc(s, sep, cur) ==
    IF s = <<>> THEN <<cur>>
    ELSE IF Head(s) = sep THEN <<cur>> \o SplitAcc(Tail(s), sep, <<>>)
    ELSE SplitAcc(Tail(s), sep, Append(cur, Head(s)))

\* str::split(sep): the pieces between separators, at least one piece
Split(s, sep) == SplitAcc(s, sep, <<>>)

RECURSIVE Join(_, _)
\* [&str]::join(sep)
Join(parts, sep) ==
    IF parts = <<>> THEN <<>>
    ELSE IF Len(parts) = 1 THEN parts[1]
    ELSE parts[1] \o <<sep>> \o Join(Tail(parts), sep)

\* str::replace(&['-', ':'][..], "")
StripDashColon(s) == SelectSeq(s, LAMBDA c : c \notin {"-", ":"})

\* ------------------------------------------------------------------------
\* Results of fallible operations: Ok(value), Err (anyhow error, `?`),
\* Panic (unwinding) and Exit (process::exit(1))
\* ------------------------------------------------------------------------
Ok(v) == [kind |-> "Ok", v |-> v]

Err == [kind |-> "Err", v |-> <<>>]

Panic == [kind |-> "Panic", v |-> <<>>]

Exit == [kind |-> "Exit", v |-> <<>>]

IsOk(r) == r.kind = "Ok"

\* ------------------------------------------------------------------------
\* The part of the standard dictionary the model uses: tag and relaxed VR
\* ------------------------------------------------------------------------
PATIENT_ID == <<16, 32>>                   \* (0010,0020) LO

PATIENT_NAME == <<16, 16>>                 \* (0010,0010) PN

INSTITUTION_NAME == <<8, 128>>             \* (0008,0080) LO

INSTITUTION_ADDRESS == <<8, 129>>          \* (0008,0081) ST

ACCESSION_NUMBER == <<8, 80>>              \* (0008,0050) SH

STUDY_ID == <<32, 16>>                     \* (0020,0010) SH

PATIENT_COMMENTS == <<16, 16384>>          \* (0010,4000) LT

DEIDENTIFICATION_METHOD == <<18, 99>>      \* (0012,0063) LO

PATIENT_IDENTITY_REMOVED == <<18, 98>>     \* (0012,0062) CS

PATIENT_AGE == <<16, 4112>>                \* (0010,1010) AS

PATIENT_SEX == <<16, 64>>                  \* (0010,0040) CS

ORIGINAL_ATTRIBUTES_SEQUENCE == <<1024, 1377>>  \* (0400,0561) SQ

StandardDataDictionary ==
    [ PatientID |-> [tag |-> PATIENT_ID, vr |-> "LO"],
      PatientName |-> [tag |-> PATIENT_NAME, vr |-> "PN"],
      InstitutionName |-> [tag |-> INSTITUTION_NAME, vr |-> "LO"],
      InstitutionAddress |-> [tag |-> INSTITUTION_ADDRESS, vr |-> "ST"],
      AccessionNumber |-> [tag |-> ACCESSION_NUMBER, vr |-> "SH"],
      StudyID |-> [tag |-> STUDY_ID, vr |-> "SH"],
      PatientComments |-> [tag |-> PATIENT_COMMENTS, vr |-> "LT"],
      DeidentificationMethod |-> [tag |-> DEIDENTIFICATION_METHOD, vr |-> "LO"],
      PatientIdentityRemoved |-> [tag |-> PATIENT_IDENTITY_REMOVED, vr |-> "CS"],
      ClinicalTrialSponsorName |-> [tag |-> <<18, 16>>, vr |-> "LO"],
      ClinicalTrialTimePointID |-> [tag |-> <<18, 80>>, vr |-> "LO"],
      PatientAge |-> [tag |-> PATIENT_AGE, vr |-> "AS"],
      PatientSex |-> [tag |-> PATIENT_SEX, vr |-> "CS"],
      Modality |-> [tag |-> <<8, 96>>, vr |-> "CS"],
      StudyDate |-> [tag |-> <<8, 32>>, vr |-> "DA"],
      StudyTime |-> [tag |-> <<8, 48>>, vr |-> "TM"],
      AcquisitionDateTime |-> [tag |-> <<8, 42>>, vr |-> "DT"],
      SeriesNumber |-> [tag |-> <<32, 17>>, vr |-> "IS"],
      InstanceNumber |-> [tag |-> <<32, 19>>, vr |-> "IS"],
      SeriesDescription |-> [tag |-> <<8, 4158>>, vr |-> "LO"],
      SOPInstanceUID |-> [tag |-> <<8, 24>>, vr |-> "UI"],
      StudyInstanceUID |-> [tag |-> <<32, 13>>, vr |-> "UI"],
      SeriesInstanceUID |-> [tag |-> <<32, 14>>, vr |-> "UI"],
      FrameOfReferenceUID |-> [tag |-> <<32, 82>>, vr |-> "UI"],
      ImageOrientationPatient |-> [tag |-> <<32, 55>>, vr |-> "DS"],
      ReferencedImageSequence |-> [tag |-> <<8, 4416>>, vr |-> "SQ"],
      OriginalAttributesSequence |-> [tag |-> ORIGINAL_ATTRIBUTES_SEQUENCE, vr |-> "SQ"] ]

\* DataDictionary::by_name, then (tag.inner(), vr.relaxed())
extract_tag_vr_from_str(tag_name) ==
    IF tag_name \in DOMAIN StandardDataDictionary
    THEN Ok(StandardDataDictionary[tag_name])
    ELSE Err

TagOf(name) == StandardDataDictionary[name].tag

\* ------------------------------------------------------------------------
\* DICOM objects
\* ------------------------------------------------------------------------
\* DataElement::new(tag, vr, value) with a primitive value
Prim(vr, val) == [vr |-> vr, val |-> val, items |-> <<>>]

\* a sequence element holding the given items
SeqEl(items) == [vr |-> "SQ", val |-> <<>>, items |-> items]

\* InMemDicomObject::put: insert or replace the element of that tag
put(obj, tag, el) ==
    [t \in (DOMAIN obj) \cup {tag} |-> IF t = tag THEN el ELSE obj[t]]

\* InMemDicomObject::remove_element: removes the top-level element of that tag
remove_element(obj, tag) == [t \in (DOMAIN obj) \ {tag} |-> obj[t]]

\* InMemDicomObject::element / element_by_name followed by to_str()
element_str(obj, tag) == IF tag \in DOMAIN obj THEN Ok(obj[tag].val) ELSE Err

\* ------------------------------------------------------------------------
\* Type-correct values (dicom_vr_corrected_value)
\* ------------------------------------------------------------------------
Digits == {"0", "1", "2", "3", "4", "5", "6", "7", "8", "9"}

DigitVal(c) == CHOOSE n \in 0..9 : <<"0", "1", "2", "3", "4", "5", "6", "7", "8", "9">>[n + 1] = c

RECURSIVE ToNat(_)
ToNat(s) == IF s = <<>> THEN 0 ELSE 10 * ToNat(SubSeq(s, 1, Len(s) - 1)) + DigitVal(s[Len(s)])

AllDigits(s) == \A i \in 1..Len(s) : s[i] \in Digits

\* str::parse::<u8>() of a two-character slice: digits, or a sign and a digit
ParseU8(s) ==
    IF AllDigits(s) THEN Ok(ToNat(s))
    ELSE IF s[1] = "+" /\ AllDigits(Tail(s)) /\ Len(s) > 1 THEN Ok(ToNat(Tail(s)))
    ELSE Err

DaysInMonth(y, m) ==
    IF m \in {4, 6, 9, 11} THEN 30
    ELSE IF m = 2 THEN (IF (y % 4 = 0 /\ y % 100 # 0) \/ y % 400 = 0 THEN 29 ELSE 28)
    ELSE 31

\* NaiveDate::parse_from_str(value, "%Y%m%d") for an 8-character value
ParseDate(s) ==
    IF ~AllDigits(s) THEN Err
    ELSE LET y == ToNat(SubSeq(s, 1, 4))
             m == ToNat(SubSeq(s, 5, 6))
             d == ToNat(SubSeq(s, 7, 8))
         IN IF m \in 1..12 /\ d \in 1..DaysInMonth(y, m) THEN Ok(s) ELSE Err

\* the three u8 parses and DicomTime::from_hms for a 6-character value
ParseTime(s) ==
    LET hr == ParseU8(SubSeq(s, 1, 2))
        min == ParseU8(SubSeq(s, 3, 4))
        sec == ParseU8(SubSeq(s, 5, 6))
    IN IF ~IsOk(hr) \/ ~IsOk(min) \/ ~IsOk(sec) THEN Err
       ELSE IF hr.v > 23 \/ min.v > 59 \/ sec.v > 60 THEN Err
       ELSE Ok(s)

TextVRs == {"AE", "AS", "PN", "SH", "CS", "LO", "UI", "UC", "ST", "LT", "UT", "UR"}

dicom_vr_corrected_value(vr, value) ==
    IF vr \in TextVRs THEN Ok(value)
    ELSE IF vr = "DA" THEN
        IF Len(value) # 8 THEN Exit ELSE ParseDate(value)
    ELSE IF vr = "TM" THEN
        IF Len(value) # 6 THEN Exit ELSE ParseTime(value)
    ELSE IF vr = "DT" THEN
        LET split_value == Split(value, "T")
        IN IF Len(split_value) < 2 THEN Panic
           ELSE LET t_date == split_value[1]
                    t_time == split_value[2]
                IN IF Len(t_date) # 8 THEN Exit
                   ELSE IF ~IsOk(ParseDate(t_date)) THEN Err
                   ELSE IF Len(t_time) # 6 THEN Exit
                   ELSE IF ~IsOk(ParseTime(t_time)) THEN Err
                   ELSE Ok(t_date \o <<"T">> \o t_time)
    ELSE Ok(value)

\* ------------------------------------------------------------------------
\* Substitution steps
\* ------------------------------------------------------------------------
\* the top-level elements of obj whose VR is vr get the value val
mask_all_vr(obj, vr, val) ==
    [t \in DOMAIN obj |-> IF obj[t].vr = vr THEN Prim(obj[t].vr, val) ELSE obj[t]]

RECURSIVE mask_vr(_, _, _)
mask_vr(obj, vr_list, val) ==
    IF vr_list = <<>> THEN obj
    ELSE mask_vr(mask_all_vr(obj, Head(vr_list), val), Tail(vr_list), val)

\* Tags to change data for
DICOM_TAGS_CHANGE ==
    << <<PATIENT_ID, "LO">>, <<PATIENT_NAME, "PN">>, <<INSTITUTION_NAME, "LO">>,
       <<INSTITUTION_ADDRESS, "ST">>, <<ACCESSION_NUMBER, "SH">>, <<STUDY_ID, "SH">>,
       <<PATIENT_COMMENTS, "LT">> >>

RECURSIVE PutAll(_, _, _)
\* put, for each (tag, vr) of the list in order, the given text value
PutAll(obj, tag_vrs, val) ==
    IF tag_vrs = <<>> THEN obj
    ELSE PutAll(put(obj, Head(tag_vrs)[1], Prim(Head(tag_vrs)[2], val)), Tail(tag_vrs), val)

\* every VR of DICOM_TAGS_CHANGE and PN are text VRs: the conversions succeed
mask_tags_with_id(obj, patient_deid) ==
    LET masked == mask_all_vr(obj, "PN", patient_deid)
        changed == PutAll(masked, DICOM_TAGS_CHANGE, patient_deid)
        method == put(changed, DEIDENTIFICATION_METHOD, Prim("LO", patient_deid))
    IN Ok(put(method, PATIENT_IDENTITY_REMOVED, Prim("CS", patient_deid)))

time_str == <<"0", "9", "0", "0", "0", "0">>

date_str == <<"1", "9", "0", "0", "0", "1", "0", "1">>

\* dicom_anon_date_time from the three converted values on: the first
\* conversion that failed is returned, otherwise the masks and the two puts
anon_date_time_masks(obj, dicom_date_data, dicom_time_data, dicom_date_time) ==
    IF ~IsOk(dicom_date_data) THEN dicom_date_data
    ELSE IF ~IsOk(dicom_time_data) THEN dicom_time_data
    ELSE IF ~IsOk(dicom_date_time) THEN dicom_date_time
    ELSE LET d == mask_all_vr(obj, "DA", dicom_date_data.v)
             t == mask_all_vr(d, "TM", dicom_time_data.v)
             dt == mask_all_vr(t, "DT", dicom_date_time.v)
             age == put(dt, PATIENT_AGE, Prim("AS", <<"0", "9", "9", "Y">>))
         IN Ok(put(age, PATIENT_SEX, Prim("CS", <<"O">>)))

\* a scrub that leaves the record as it is
dicom_anon_date_time_kept(obj) == Ok(obj)

dicom_anon_date_time(obj) ==
    anon_date_time_masks(obj,
                         dicom_vr_corrected_value("DA", date_str),
                         dicom_vr_corrected_value("TM", time_str),
                         dicom_vr_corrected_value("DT", date_str \o <<"T">> \o time_str))

is_private(tag) == tag[1] % 2 = 1

RECURSIVE collect_tags(_, _)
\* the private tags of the element with that tag and of everything nested in
\* it (the Vec the code collects, as a set: it is only used to remove)
collect_tags(tag, el) ==
    (IF is_private(tag) THEN {tag} ELSE {})
    \cup (IF el.vr = "SQ"
          THEN UNION { UNION { collect_tags(t, el.items[i][t]) : t \in DOMAIN el.items[i] }
                       : i \in 1..Len(el.items) }
          ELSE {})

\* a purge that also removes the sequences holding a private element
delete_private_tags_with_holders(obj) ==
    LET holders == { t \in DOMAIN obj : collect_tags(t, obj[t]) # {} }
        kept == (DOMAIN obj) \ (holders \cup {ORIGINAL_ATTRIBUTES_SEQUENCE})
    IN Ok([t \in kept |-> obj[t]])

delete_private_tags(obj) ==
    LET private_tags == UNION { collect_tags(t, obj[t]) : t \in DOMAIN obj }
        kept == (DOMAIN obj) \ (private_tags \cup {ORIGINAL_ATTRIBUTES_SEQUENCE})
    IN Ok([t \in kept |-> obj[t]])

anon_uid_prefix ==
    Split(<<"1", ".", "2", ".", "9", "9", "9", ".", "9", "9", "9", "9", "9", "9", ".",
            "9", "9", "9", "9", ".", "9", ".", "9", ".", "9", ".", "9", "9", "9", "9">>, ".")

uid_tag_list == <<"SOPInstanceUID", "StudyInstanceUID", "SeriesInstanceUID", "FrameOfReferenceUID">>

\* the number of leading components &org_uid_vec[8..] drops
UidSkip == 8

RECURSIVE anon_dicom_uids_from(_, _)
\* the loop body from the converted new value on: put it, go on to the next name
anon_uid_put(obj, tv, value, names) ==
    IF ~IsOk(value) THEN value
    ELSE anon_dicom_uids_from(put(obj, tv.tag, Prim(tv.vr, value.v)), names)

\* a remap that keeps the last UidSkip components of the present value
anon_uid_value_last(obj, tv, org_uid_val, names) ==
    IF ~IsOk(org_uid_val) THEN Err
    ELSE LET org_uid_vec == Split(org_uid_val.v, ".")
         IN IF Len(org_uid_vec) < UidSkip THEN Panic
            ELSE anon_uid_put(obj, tv,
                              dicom_vr_corrected_value(
                                  tv.vr,
                                  Join(anon_uid_prefix
                                       \o SubSeq(org_uid_vec, Len(org_uid_vec) - UidSkip + 1,
                                                 Len(org_uid_vec)),
                                       ".")),
                              names)

\* a remap that passes over an identifier the record does not have
anon_uid_value_if_present(obj, tv, org_uid_val, names) ==
    IF ~IsOk(org_uid_val) THEN anon_dicom_uids_from(obj, names)
    ELSE LET org_uid_vec == Split(org_uid_val.v, ".")
         IN IF Len(org_uid_vec) < UidSkip THEN Panic
            ELSE anon_uid_put(obj, tv,
                              dicom_vr_corrected_value(
                                  tv.vr,
                                  Join(anon_uid_prefix
                                       \o SubSeq(org_uid_vec, UidSkip + 1, Len(org_uid_vec)),
                                       ".")),
                              names)

\* the loop body from the record's present value on
anon_uid_value(obj, tv, org_uid_val, names) ==
    IF ~IsOk(org_uid_val) THEN Err
    ELSE LET org_uid_vec == Split(org_uid_val.v, ".")
         IN IF Len(org_uid_vec) < UidSkip THEN Panic
            ELSE anon_uid_put(obj, tv,
                              dicom_vr_corrected_value(
                                  tv.vr,
                                  Join(anon_uid_prefix
                                       \o SubSeq(org_uid_vec, UidSkip + 1, Len(org_uid_vec)),
                                       ".")),
                              names)

anon_dicom_uids_from(obj, names) ==
    IF names = <<>> THEN Ok(obj)
    ELSE LET tv == extract_tag_vr_from_str(Head(names))
         IN IF ~IsOk(tv) THEN Err
            ELSE anon_uid_value(obj, tv.v, element_str(obj, tv.v.tag), Tail(names))

anon_dicom_uids(obj) == anon_dicom_uids_from(obj, uid_tag_list)

\* ------------------------------------------------------------------------
\* More strings
\* ------------------------------------------------------------------------
Whitespace == {" ", "\t", "\n", "\r"}

RECURSIVE TrimStart(_)
TrimStart(s) == IF s # <<>> /\ Head(s) \in Whitespace THEN TrimStart(Tail(s)) ELSE s

RECURSIVE TrimEnd(_)
TrimEnd(s) ==
    IF s # <<>> /\ s[Len(s)] \in Whitespace THEN TrimEnd(SubSeq(s, 1, Len(s) - 1)) ELSE s

\* str::trim()
Trim(s) == TrimEnd(TrimStart(s))

\* str::replace(from, to) for a one-character pattern
ReplaceChar(s, from, to) == [i \in 1..Len(s) |-> IF s[i] = from THEN to ELSE s[i]]

RECURSIVE PadLeft(_, _, _)
\* the format width {:c>w}: fill on the left up to w characters
PadLeft(s, c, w) == IF Len(s) >= w THEN s ELSE PadLeft(<<c>> \o s, c, w)

LowerCase == <<"a", "b", "c", "d", "e", "f", "g", "h", "i", "j", "k", "l", "m",
               "n", "o", "p", "q", "r", "s", "t", "u", "v", "w", "x", "y", "z">>

UpperCase == <<"A", "B", "C", "D", "E", "F", "G", "H", "I", "J", "K", "L", "M",
               "N", "O", "P", "Q", "R", "S", "T", "U", "V", "W", "X", "Y", "Z">>

Range(f) == { f[i] : i \in DOMAIN f }

\* str::to_uppercase() on ASCII
ToUpper(s) ==
    [i \in 1..Len(s) |->
        IF s[i] \in Range(LowerCase)
        THEN UpperCase[CHOOSE k \in 1..Len(LowerCase) : LowerCase[k] = s[i]]
        ELSE s[i]]

\* the characters the pattern [^a-zA-Z0-9] does not match
AlphaNumeric == Range(LowerCase) \cup Range(UpperCase) \cup Digits

RECURSIVE CollapseUnderscores(_)
\* Regex::replace_all of [^a-zA-Z0-9]+ by "_" on a string whose only
\* non-alphanumeric character is '_': every run becomes one '_'
CollapseUnderscores(s) ==
    IF Len(s) < 2 THEN s
    ELSE IF s[1] = "_" /\ s[2] = "_" THEN CollapseUnderscores(Tail(s))
    ELSE <<s[1]>> \o CollapseUnderscores(Tail(s))

\* a replacement that maps the characters and collapses nothing
replace_each_non_alphanumeric(input) ==
    [i \in 1..Len(input) |-> IF input[i] \in AlphaNumeric THEN input[i] ELSE "_"]

replace_non_alphanumeric(input) ==
    LET modified_chars == [i \in 1..Len(input) |->
                              IF input[i] \in AlphaNumeric THEN input[i] ELSE "_"]
    IN CollapseUnderscores(modified_chars)

\* ------------------------------------------------------------------------
\* The values file names and paths are made of
\* ------------------------------------------------------------------------
\* Tags to get data for, each with the characters of its name
DICOM_TAGS_SANITIZED ==
    [ PatientID |-> <<"P", "a", "t", "i", "e", "n", "t", "I", "D">>,
      PatientName |-> <<"P", "a", "t", "i", "e", "n", "t", "N", "a", "m", "e">>,
      Modality |-> <<"M", "o", "d", "a", "l", "i", "t", "y">>,
      StudyDate |-> <<"S", "t", "u", "d", "y", "D", "a", "t", "e">>,
      StudyTime |-> <<"S", "t", "u", "d", "y", "T", "i", "m", "e">>,
      SeriesNumber |-> <<"S", "e", "r", "i", "e", "s", "N", "u", "m", "b", "e", "r">>,
      SeriesInstanceUID |-> <<"S", "e", "r", "i", "e", "s", "I", "n", "s", "t", "a", "n", "c", "e", "U", "I", "D">>,
      StudyInstanceUID |-> <<"S", "t", "u", "d", "y", "I", "n", "s", "t", "a", "n", "c", "e", "U", "I", "D">>,
      InstanceNumber |-> <<"I", "n", "s", "t", "a", "n", "c", "e", "N", "u", "m", "b", "e", "r">>,
      SeriesDescription |-> <<"S", "e", "r", "i", "e", "s", "D", "e", "s", "c", "r", "i", "p", "t", "i", "o", "n">> ]

NoValue(name) == <<"N", "o", "V", "a", "l", "u", "e", "_">> \o DICOM_TAGS_SANITIZED[name]

\* one component of ImageOrientationPatient rounded to an integer
RoundComponent(c) ==
    IF c = <<"1">> THEN Ok(1)
    ELSE IF c = <<"0">> THEN Ok(0)
    ELSE IF c = <<"-", "1">> THEN Ok(-1)
    ELSE Err

determine_plane(obj) ==
    LET iop == TagOf("ImageOrientationPatient")
        parts == IF iop \in DOMAIN obj THEN Split(obj[iop].val, "\\")
                 ELSE <<<<"0">>, <<"0">>, <<"0">>, <<"0">>, <<"0">>, <<"0">>>>
    IN IF \E i \in 1..Len(parts) : ~IsOk(RoundComponent(parts[i])) THEN Err
       ELSE IF Len(parts) < 6 THEN Panic
       ELSE LET row_x == RoundComponent(parts[1]).v
                row_y == RoundComponent(parts[2]).v
                col_y == RoundComponent(parts[5]).v
                col_z == RoundComponent(parts[6]).v
            IN Ok(IF row_x = 1 /\ col_z = -1 THEN <<"C", "O", "R">>
                  ELSE IF row_x = 1 /\ col_y = 1 THEN <<"A", "X">>
                  ELSE IF row_y = 1 /\ col_z = -1 THEN <<"S", "A", "G">>
                  ELSE <<"N", "A">>)

get_sanitized_tag_values(obj) ==
    LET plane == determine_plane(obj)
    IN IF ~IsOk(plane) THEN plane
       ELSE Ok([n \in (DOMAIN DICOM_TAGS_SANITIZED) \cup {"ImagePlane"} |->
                   IF n = "ImagePlane" THEN plane.v
                   ELSE IF TagOf(n) \in DOMAIN obj THEN StripDashColon(obj[TagOf(n)].val)
                   ELSE NoValue(n)])

generate_dicom_file_name(v, prefix) ==
    prefix \o <<"_">> \o Trim(v["PatientID"]) \o <<"_">> \o v["Modality"] \o <<"_">>
    \o v["StudyDate"] \o <<"T">> \o Split(v["StudyTime"], ".")[1] \o <<"_">>
    \o v["SeriesNumber"] \o <<"_">> \o v["SeriesInstanceUID"] \o <<"_">>
    \o PadLeft(v["InstanceNumber"], "0", 5) \o <<".", "d", "c", "m">>

\* the number of trailing characters of the study UID's last component kept
UidTail == 5

\* the directory of a record under the destination (create_target_dir is
\* the caller's step: it can fail)
generate_dicom_file_path(v, destination_path) ==
    LET comps == Split(v["StudyInstanceUID"], ".")
        temp_trimmed_study_uid == comps[Len(comps)]
        n == Len(temp_trimmed_study_uid)
        final_trimmed_uid == IF n > UidTail
                             THEN SubSeq(temp_trimmed_study_uid, n - UidTail + 1, n)
                             ELSE temp_trimmed_study_uid
    IN destination_path \o <<"/">>
       \o ReplaceChar(ReplaceChar(Trim(v["PatientID"]), " ", "_"), "^", "_") \o <<"/">>
       \o Trim(v["StudyDate"]) \o <<"T">> \o Trim(v["StudyTime"]) \o <<"_">>
       \o PadLeft(final_trimmed_uid, "0", 5) \o <<"/">>
       \o PadLeft(v["SeriesNumber"], "0", 4) \o <<"_">>
       \o ToUpper(replace_non_alphanumeric(Trim(v["SeriesDescription"]))) \o <<"_">>
       \o Trim(v["ImagePlane"])

\* a check that takes the path as it is
check_if_dup_never(existing, full_path) == full_path

\* a check that adds one suffix and does not look again
check_if_dup_once(existing, full_path) ==
    IF full_path \in existing THEN full_path \o <<"~">> ELSE full_path

RECURSIVE check_if_dup_exists(_, _)
\* the first of full_path, full_path~, full_path~~, ... that does not exist
check_if_dup_exists(existing, full_path) ==
    IF full_path \in existing
    THEN check_if_dup_exists(existing, full_path \o <<"~">>)
    ELSE full_path

\* ------------------------------------------------------------------------
\* The rule steps of deidentification
\* ------------------------------------------------------------------------
RECURSIVE tags_to_mask(_, _, _)
\* mask_config_list: names the configuration validation resolved
tags_to_mask(obj, patient_deid, mask_config_list) ==
    IF mask_config_list = <<>> THEN Ok(obj)
    ELSE LET each_tag == StandardDataDictionary[Head(mask_config_list)]
             value == dicom_vr_corrected_value(each_tag.vr, patient_deid)
         IN IF ~IsOk(value) THEN value
            ELSE tags_to_mask(put(obj, each_tag.tag, Prim(each_tag.vr, value.v)),
                              patient_deid, Tail(mask_config_list))

RECURSIVE tags_to_add(_, _, _)
\* order: the order in which the HashMap add_config_list is iterated
tags_to_add(obj, add_config_list, order) ==
    IF order = <<>> THEN Ok(obj)
    ELSE LET tv == extract_tag_vr_from_str(Head(order))
         IN IF ~IsOk(tv) THEN Err
            ELSE LET value == dicom_vr_corrected_value(tv.v.vr, add_config_list[Head(order)])
                 IN IF ~IsOk(value) THEN value
                    ELSE tags_to_add(put(obj, tv.v.tag, Prim(tv.v.vr, value.v)),
                                     add_config_list, Tail(order))

RECURSIVE tags_to_delete(_, _)
tags_to_delete(obj, delete_config_list) ==
    IF delete_config_list = <<>> THEN Ok(obj)
    ELSE tags_to_delete(remove_element(obj, TagOf(Head(delete_config_list))),
                        Tail(delete_config_list))

\* the orders a HashMap with these keys can be iterated in
IterationOrders(keys) ==
    { o \in [1..Cardinality(keys) -> keys] : \A k \in keys : \E i \in DOMAIN o : o[i] = k }

\* a chain that adds before it masks
deid_chain_add_first(cfg) ==
    (IF cfg.private_tags_del THEN <<"delete_private_tags">> ELSE <<>>)
    \o (IF DOMAIN cfg.add # {} THEN <<"tags_to_add">> ELSE <<>>)
    \o (IF cfg.mask_tag # <<>> THEN <<"tags_to_mask">> ELSE <<>>)
    \o (IF cfg.mask_vr # <<>> THEN <<"mask_vr">> ELSE <<>>)
    \o (IF cfg.delete_tag # <<>> THEN <<"tags_to_delete">> ELSE <<>>)

\* The rule steps deid_each_dcm_file applies to a record, in the order of its
\* code; a step whose list is empty (or whose flag is off) is not applied
deid_chain(cfg) ==
    (IF cfg.private_tags_del THEN <<"delete_private_tags">> ELSE <<>>)
    \o (IF cfg.mask_tag # <<>> THEN <<"tags_to_mask">> ELSE <<>>)
    \o (IF cfg.mask_vr # <<>> THEN <<"mask_vr">> ELSE <<>>)
    \o (IF DOMAIN cfg.add # {} THEN <<"tags_to_add">> ELSE <<>>)
    \o (IF cfg.delete_tag # <<>> THEN <<"tags_to_delete">> ELSE <<>>)

\* one rule step on a record
deid_step(step, obj, cfg, patient_deid, order) ==
    CASE step = "delete_private_tags" -> delete_private_tags(obj)
      [] step = "tags_to_mask" -> tags_to_mask(obj, patient_deid, cfg.mask_tag)
      [] step = "mask_vr" -> Ok(mask_vr(obj, cfg.mask_vr, patient_deid))
      [] step = "tags_to_add" -> tags_to_add(obj, cfg.add, order)
      [] step = "tags_to_delete" -> tags_to_delete(obj, cfg.delete_tag)

RECURSIVE deid_apply(_, _, _, _, _)
\* the steps of the chain one after the other; the first that fails ends it
deid_apply(chain, obj, cfg, patient_deid, order) ==
    IF chain = <<>> THEN Ok(obj)
    ELSE LET r == deid_step(Head(chain), obj, cfg, patient_deid, order)
         IN IF ~IsOk(r) THEN r
            ELSE deid_apply(Tail(chain), r.v, cfg, patient_deid, order)

Skip == [kind |-> "Skip", v |-> <<>>]

\* a lookup that falls back on the subject key itself
lookup_deid_or_key(mapping_dict, tag_to_match) ==
    IF tag_to_match \in DOMAIN mapping_dict THEN mapping_dict[tag_to_match] ELSE tag_to_match

\* a lookup that returns the table's key column
lookup_deid_key_column(mapping_dict, tag_to_match) ==
    IF tag_to_match \in DOMAIN mapping_dict THEN tag_to_match ELSE <<>>

\* mapping_dict.get(&tag_to_match), "" when there is no entry
lookup_deid(mapping_dict, tag_to_match) ==
    IF tag_to_match \in DOMAIN mapping_dict THEN mapping_dict[tag_to_match] ELSE <<>>

\* what the write task is spawned with: the new record and its path values
hand_off(new_dicom_object, dicom_tags_values) ==
    IF ~IsOk(dicom_tags_values) THEN dicom_tags_values
    ELSE Ok([obj |-> new_dicom_object, values |-> dicom_tags_values.v])

\* from the result of the last substitution step on: get_sanitized_tag_values
with_tag_values(new_dicom_object) ==
    IF ~IsOk(new_dicom_object) THEN new_dicom_object
    ELSE hand_off(new_dicom_object.v, get_sanitized_tag_values(new_dicom_object.v))

\* deid_each_dcm_file up to the hand-off: Skip (no identity for the subject
\* key), a failure, or Ok of the transformed record and its path values
deid_each_dcm_file(obj, cfg, mapping_dict, order) ==
    LET tag_to_match == element_str(obj, TagOf(cfg.match_id))
    IN IF ~IsOk(tag_to_match) THEN Err
       ELSE LET patient_deid == lookup_deid(mapping_dict, tag_to_match.v)
            IN IF patient_deid = <<>> THEN Skip
               ELSE with_tag_values(deid_apply(deid_chain(cfg), obj, cfg, patient_deid, order))

\* new_dicom_object = dicom_anon_date_time(new_dicom_object)?
then_dicom_anon_date_time(new_dicom_object) ==
    IF ~IsOk(new_dicom_object) THEN new_dicom_object
    ELSE dicom_anon_date_time(new_dicom_object.v)

\* new_dicom_object = delete_private_tags(new_dicom_object)?
then_delete_private_tags(new_dicom_object) ==
    IF ~IsOk(new_dicom_object) THEN new_dicom_object
    ELSE delete_private_tags(new_dicom_object.v)

\* new_dicom_object = anon_dicom_uids(new_dicom_object)?
then_anon_dicom_uids(new_dicom_object) ==
    IF ~IsOk(new_dicom_object) THEN new_dicom_object
    ELSE anon_dicom_uids(new_dicom_object.v)

\* anon_each_dcm_file from the registry entry to the hand-off
anon_transform(obj, patient_anon_id) ==
    with_tag_values(
        then_anon_dicom_uids(
            then_delete_private_tags(
                then_dicom_anon_date_time(mask_tags_with_id(obj, patient_anon_id)))))

\* ------------------------------------------------------------------------
\* Inputs: records, source files, rule sets, mapping tables
\* ------------------------------------------------------------------------
\* the object holding the given <<tag, element>> pairs
Obj(pairs) ==
    [t \in { pairs[i][1] : i \in DOMAIN pairs } |->
        pairs[CHOOSE i \in DOMAIN pairs : pairs[i][1] = t][2]]

LongUid(last) == <<"1", ".", "2", ".", "8", "4", "0", ".", "1", "1", "3", "6", "1", "9", ".", "2", ".", "5", "5", ".", "3", ".", "1", "2", "3", "4", ".", "7", "7", ".">> \o last

ShortUid == <<"1", ".", "2", ".", "3">>

U1 == <<"U", "1">>

U2 == <<"U", "2">>

\* an item of a sequence: a private element, a person name and a date
NestedItem ==
    Obj(<< <<<<9, 17>>, Prim("LO", <<"x">>)>>,
           <<PATIENT_NAME, Prim("PN", <<"D", "o", "e", "^", "J">>)>>,
           <<TagOf("StudyDate"), Prim("DA", <<"2", "0", "2", "3", "0", "1", "0", "1">>)>> >>)

\* a private element three sequence levels deep, beside public ones
Nested3 ==
    Obj(<< <<TagOf("Modality"), Prim("CS", <<"M", "R">>)>>,
           <<TagOf("ReferencedImageSequence"),
             SeqEl(<< Obj(<< <<TagOf("ReferencedImageSequence"), SeqEl(<<NestedItem>>)>>,
                             <<TagOf("SeriesNumber"), Prim("IS", <<"3">>)>> >>) >>)>> >>)

\* a record of the subject pid
Record(pid) ==
    Obj(<< <<PATIENT_ID, Prim("LO", pid)>>,
           <<PATIENT_NAME, Prim("PN", <<"D", "o", "e", "^", "J">>)>>,
           <<TagOf("Modality"), Prim("CS", <<"M", "R">>)>>,
           <<TagOf("StudyDate"), Prim("DA", <<"2", "0", "2", "3", "0", "1", "0", "1">>)>>,
           <<TagOf("StudyTime"), Prim("TM", <<"1", "0", "1", "5", "0", "0", ".", "5", "0">>)>>,
           <<TagOf("SeriesNumber"), Prim("IS", <<"3">>)>>,
           <<TagOf("InstanceNumber"), Prim("IS", <<"1">>)>>,
           <<TagOf("SeriesDescription"), Prim("LO", <<"t", "1", " ", "-", "a", "x">>)>>,
           <<TagOf("SOPInstanceUID"), Prim("UI", LongUid(<<"1">>))>>,
           <<TagOf("StudyInstanceUID"), Prim("UI", LongUid(<<"1", "2", "3", "4", "5", "6", "7">>))>>,
           <<TagOf("SeriesInstanceUID"), Prim("UI", LongUid(<<"3">>))>>,
           <<TagOf("FrameOfReferenceUID"), Prim("UI", LongUid(<<"4">>))>>,
           <<<<9, 16>>, Prim("LO", <<"G", "E">>)>>,
           <<TagOf("ReferencedImageSequence"), SeqEl(<<Nested3, NestedItem>>)>> >>)

\* what open_file gives for a source file, and the file's name
SourceFiles ==
    << [file_name |-> <<"n", "o", "t", "e", "s", ".", "t", "x", "t">>, dcm |-> Err],
      [file_name |-> <<"I", "M", "1">>, dcm |-> Ok(Record(U1))],
      [file_name |-> <<"I", "M", "1">>, dcm |-> Ok(Record(U2))],
      [file_name |-> <<"I", "M", "2">>, dcm |-> Ok(remove_element(Record(U1), PATIENT_ID))],
      [file_name |-> <<"I", "M", "3">>,
       dcm |-> Ok(put(Record(U2), TagOf("StudyInstanceUID"), Prim("UI", ShortUid)))] >>

\* the file lists of n files, one per multiset of source files: the walk and
\* the pool give the files no order
FileLists(n) ==
    { [f \in 1..n |-> SourceFiles[idx[f]]] :
        idx \in { i \in [1..n -> DOMAIN SourceFiles] :
                    \A f \in 1..n, g \in 1..n : f <= g => i[f] <= i[g] } }

\* rule sets as parse_toml_cookbook returns them
DefaultCookbook ==
    [ match_id |-> "PatientID",
      mask_tag |-> <<"PatientID", "PatientName", "InstitutionName", "InstitutionAddress",
                     "StudyID", "AccessionNumber">>,
      mask_vr |-> <<"PN">>,
      delete_tag |-> <<>>,
      private_tags_del |-> FALSE,
      add |-> [ PatientIdentityRemoved |-> <<"Y", "e", "s">>,
                DeidentificationMethod |-> <<"D", "C", "M", "R", "i", "g">> ] ]

PurgeCookbook ==
    [ match_id |-> "PatientID",
      mask_tag |-> <<"PatientID", "PatientName">>,
      mask_vr |-> <<>>,
      delete_tag |-> <<"PatientComments", "InstitutionName">>,
      private_tags_del |-> TRUE,
      add |-> [ InstitutionName |-> <<"S", "i", "t", "e">> ] ]

RunCookbooks == {DefaultCookbook, PurgeCookbook}

DEID_001 == <<"D", "E", "I", "D", "_", "0", "0", "1">>

\* mapping tables as generate_mapping_dict returns them: subject key -> identity
MappingTables == { Obj(<< <<U1, DEID_001>> >>),
                   Obj(<< <<U1, DEID_001>>, <<U2, <<"D", "E", "I", "D", "_", "0", "0", "2">>>> >>) }

SITE1 == <<"S", "I", "T", "E", "1">>

\* what gen_id can return: 10 characters of the alphabet without '_' and '-'
GenIds == { <<"a", "B", "3", "d", "E", "6", "g", "H", "9", "k">>, <<"Z", "y", "8", "x", "W", "5", "v", "U", "2", "t">> }

destination_path == <<"/", "o", "u", "t">>

\* ------------------------------------------------------------------------
\* A run of dicom_anon or dicom_deid
\* ------------------------------------------------------------------------
VARIABLES
    mode,            \* "anon" or "deid": the subcommand
    anon_prefix,     \* the operator's prefix (anon)
    cookbook,        \* the rule set (deid)
    mapping_dict,    \* subject key -> identity, from the mapping table (deid)
    all_files,       \* the files preprocessing_setup found
    run,             \* where the orchestrator is
    fpc,             \* per file: where its worker is
    anon_id_tracker, \* the registry: subject key -> generated identity
    lock_holder,     \* the file whose worker holds the registry lock, 0: free
    poisoned,        \* the registry lock is poisoned
    failed_case,     \* counter
    non_dcm_cases,   \* counter
    wg,              \* WaitGroup clones alive, the orchestrator's own excepted
    task,            \* per file: its deferred write task
    fs,              \* destination tree: path -> the source file it holds
    clobbered,       \* paths at which existing data was overwritten
    used_id,         \* per file: the identity its record was transformed with
    summary,         \* what print_status printed
    rule_cfg,        \* rule steps on one record: the rule set
    rule_in,         \* the record as decoded
    rule_id,         \* the identity found for its subject key
    rule_obj,        \* the record as transformed so far
    rule_log,        \* the steps applied so far
    rule_pc          \* where deid_each_dcm_file is

vars == <<mode, anon_prefix, cookbook, mapping_dict, all_files, run, fpc,
          anon_id_tracker, lock_holder, poisoned, failed_case, non_dcm_cases, wg,
          task, fs, clobbered, used_id, summary,
          rule_cfg, rule_in, rule_id, rule_obj, rule_log, rule_pc>>

rule_vars == <<rule_cfg, rule_in, rule_id, rule_obj, rule_log, rule_pc>>

inputs == <<mode, anon_prefix, cookbook, mapping_dict, all_files, rule_vars>>

run_vars == <<mode, anon_prefix, cookbook, mapping_dict, all_files, run, fpc,
              anon_id_tracker, lock_holder, poisoned, failed_case, non_dcm_cases, wg,
              task, fs, clobbered, used_id, summary>>

Files == 1..NumFiles

NoTask == [st |-> "none", obj |-> <<>>, values |-> <<>>, full_path |-> <<>>]

NoSummary == [total |-> 0, failed |-> 0, non_dcm |-> 0, processed |-> 0]

\* no record is in the rule steps
RulesOff ==
    /\ rule_cfg = DefaultCookbook
    /\ rule_in = <<>>
    /\ rule_id = <<>>
    /\ rule_obj = <<>>
    /\ rule_log = <<>>
    /\ rule_pc = "off"

Init ==
    /\ RulesOff
    /\ mode \in {"anon", "deid"}
    /\ anon_prefix \in (IF mode = "anon" THEN {<<>>, SITE1} ELSE {<<>>})
    /\ cookbook \in (IF mode = "deid" THEN RunCookbooks ELSE {DefaultCookbook})
    /\ mapping_dict \in (IF mode = "deid" THEN MappingTables ELSE {<<>>})
    /\ all_files \in FileLists(NumFiles)
    /\ run = "loop"
    /\ fpc = [f \in Files |-> "todo"]
    /\ anon_id_tracker = <<>>
    /\ lock_holder = 0
    /\ poisoned = FALSE
    /\ failed_case = 0
    /\ non_dcm_cases = 0
    /\ wg = 0
    /\ task = [f \in Files |-> NoTask]
    /\ fs = <<>>
    /\ clobbered = {}
    /\ used_id = [f \in Files |-> <<>>]
    /\ summary = NoSummary

\* the per-file outcomes: copied as a non-record, handed to the write stage,
\* copied as a failed case, skipped for want of an identity
Outcomes == {"non_record", "handed", "failed_copied", "skipped"}

\* pool threads in use: a worker inside a file's closure, or inside a write task
Busy ==
    Cardinality({ f \in Files : fpc[f] \in {"wait", "locked", "failed"} })
    + Cardinality({ f \in Files : task[f].st = "checked" })

\* a pool thread can pick up more work
Idle == Busy < NumThreads

\* the process is alive and its pool runs jobs
Alive == run \in {"loop", "waiting"}

\* fs::copy / File::create + write_all at path: the file there now holds f's data
store(files, path, f) == put(files, path, f)

NON_DICOM == <<"/", "N", "O", "N", "_", "D", "I", "C", "O", "M", "/">>

FAILED_CASES == <<"/", "F", "A", "I", "L", "E", "D", "_", "C", "A", "S", "E", "S", "/">>

\* a non-record branch whose increment starts from the counter's first value
copy_non_dicom_files_lost(f) ==
    /\ run = "loop" /\ fpc[f] = "todo" /\ Idle
    /\ ~IsOk(all_files[f].dcm)
    /\ non_dcm_cases' = 1
    /\ LET path == destination_path \o NON_DICOM \o all_files[f].file_name
       IN /\ fs' = store(fs, path, f)
          /\ clobbered' = IF path \in DOMAIN fs THEN clobbered \cup {path} ELSE clobbered
    /\ fpc' = [fpc EXCEPT ![f] = "non_record"]
    /\ UNCHANGED <<inputs, run, anon_id_tracker, lock_holder, poisoned, failed_case, wg,
                   task, used_id, summary>>

\* the else branch of the main loop: a file open_file cannot decode
copy_non_dicom_files(f) ==
    /\ run = "loop" /\ fpc[f] = "todo" /\ Idle
    /\ ~IsOk(all_files[f].dcm)
    /\ non_dcm_cases' = non_dcm_cases + 1
    /\ LET path == destination_path \o NON_DICOM \o all_files[f].file_name
       IN /\ fs' = store(fs, path, f)
          /\ clobbered' = IF path \in DOMAIN fs THEN clobbered \cup {path} ELSE clobbered
    /\ fpc' = [fpc EXCEPT ![f] = "non_record"]
    /\ UNCHANGED <<inputs, run, anon_id_tracker, lock_holder, poisoned, failed_case, wg,
                   task, used_id, summary>>

\* anon_each_dcm_file up to the registry lock: reads PatientID, then blocks
anon_open(f) ==
    /\ run = "loop" /\ fpc[f] = "todo" /\ Idle
    /\ mode = "anon" /\ IsOk(all_files[f].dcm)
    /\ IF IsOk(element_str(all_files[f].dcm.v, PATIENT_ID))
       THEN /\ fpc' = [fpc EXCEPT ![f] = "wait"]
            /\ wg' = wg + 1
       ELSE /\ fpc' = [fpc EXCEPT ![f] = "failed"]
            /\ wg' = wg
    /\ UNCHANGED <<inputs, run, anon_id_tracker, lock_holder, poisoned, failed_case,
                   non_dcm_cases, task, fs, clobbered, used_id, summary>>

\* the identity of a new registry entry
new_anon_id(prefix, id) == IF Len(prefix) = 0 THEN id ELSE prefix \o <<"_">> \o id

\* a registry that inserts without looking for an entry first
get_or_insert_always(tracker, patient_id, anon_id) == put(tracker, patient_id, anon_id)

\* a registry that keeps the newest subject key only
get_or_insert_alone(tracker, patient_id, anon_id) ==
    IF patient_id \in DOMAIN tracker THEN tracker ELSE put(<<>>, patient_id, anon_id)

\* the registry after get-or-create of patient_id
get_or_insert(tracker, patient_id, anon_id) ==
    IF patient_id \in DOMAIN tracker THEN tracker ELSE put(tracker, patient_id, anon_id)

\* a lookup that does not wait for the registry lock
anon_lock_shared(f) ==
    /\ run = "loop" /\ fpc[f] = "wait"
    /\ \E id \in GenIds :
         anon_id_tracker' =
             get_or_insert(anon_id_tracker, element_str(all_files[f].dcm.v, PATIENT_ID).v,
                           new_anon_id(anon_prefix, id))
    /\ lock_holder' = f
    /\ fpc' = [fpc EXCEPT ![f] = "locked"]
    /\ UNCHANGED <<inputs, run, poisoned, failed_case, non_dcm_cases, wg, task, fs, clobbered,
                   used_id, summary>>

\* map_clone.lock(), then the match on map.get(&patient_id)
anon_lock(f) ==
    /\ run = "loop" /\ fpc[f] = "wait" /\ lock_holder = 0
    /\ IF poisoned
       THEN /\ fpc' = [fpc EXCEPT ![f] = "panicked"]
            /\ wg' = wg - 1
            /\ UNCHANGED <<anon_id_tracker, lock_holder>>
       ELSE /\ \E id \in GenIds :
                 anon_id_tracker' =
                     get_or_insert(anon_id_tracker, element_str(all_files[f].dcm.v, PATIENT_ID).v,
                                   new_anon_id(anon_prefix, id))
            /\ lock_holder' = f
            /\ fpc' = [fpc EXCEPT ![f] = "locked"]
            /\ wg' = wg
    /\ UNCHANGED <<inputs, run, poisoned, failed_case, non_dcm_cases, task, fs, clobbered,
                   used_id, summary>>

\* the rest of anon_each_dcm_file, under the registry lock: the substitution
\* steps, rayon::spawn of the write task, and the return that drops the guard
anon_each_dcm_file(f) ==
    /\ run = "loop" /\ fpc[f] = "locked" /\ lock_holder = f
    /\ LET patient_id == element_str(all_files[f].dcm.v, PATIENT_ID).v
           patient_anon_id == anon_id_tracker[patient_id]
           r == anon_transform(all_files[f].dcm.v, patient_anon_id)
       IN /\ used_id' = [used_id EXCEPT ![f] = patient_anon_id]
          /\ lock_holder' = 0
          /\ CASE r.kind = "Ok" ->
                    /\ task' = [task EXCEPT ![f] = [st |-> "queued", obj |-> r.v.obj,
                                                    values |-> r.v.values, full_path |-> <<>>]]
                    /\ fpc' = [fpc EXCEPT ![f] = "handed"]
                    /\ UNCHANGED <<wg, poisoned, run>>
               [] r.kind = "Err" ->
                    /\ fpc' = [fpc EXCEPT ![f] = "failed"]
                    /\ wg' = wg - 1
                    /\ UNCHANGED <<task, poisoned, run>>
               [] r.kind = "Panic" ->
                    /\ fpc' = [fpc EXCEPT ![f] = "panicked"]
                    /\ wg' = wg - 1
                    /\ poisoned' = TRUE
                    /\ UNCHANGED <<task, run>>
               [] r.kind = "Exit" ->
                    /\ run' = "exited"
                    /\ UNCHANGED <<task, fpc, wg, poisoned>>
    /\ UNCHANGED <<inputs, anon_id_tracker, failed_case, non_dcm_cases, fs, clobbered,
                   summary>>

\* deid_each_dcm_file: no shared state is touched before the hand-off
deid_file(f) ==
    /\ run = "loop" /\ fpc[f] = "todo" /\ Idle
    /\ mode = "deid" /\ IsOk(all_files[f].dcm)
    /\ \E order \in IterationOrders(DOMAIN cookbook.add) :
         LET r == deid_each_dcm_file(all_files[f].dcm.v, cookbook, mapping_dict, order)
         IN CASE r.kind = "Ok" ->
                   /\ task' = [task EXCEPT ![f] = [st |-> "queued", obj |-> r.v.obj,
                                                   values |-> r.v.values, full_path |-> <<>>]]
                   /\ fpc' = [fpc EXCEPT ![f] = "handed"]
                   /\ wg' = wg + 1
                   /\ used_id' = [used_id EXCEPT ![f] =
                          lookup_deid(mapping_dict,
                                      element_str(all_files[f].dcm.v, TagOf(cookbook.match_id)).v)]
                   /\ UNCHANGED run
              [] r.kind = "Skip" ->
                   /\ fpc' = [fpc EXCEPT ![f] = "skipped"]
                   /\ UNCHANGED <<task, wg, used_id, run>>
              [] r.kind = "Err" ->
                   /\ fpc' = [fpc EXCEPT ![f] = "failed"]
                   /\ UNCHANGED <<task, wg, used_id, run>>
              [] r.kind = "Panic" ->
                   /\ fpc' = [fpc EXCEPT ![f] = "panicked"]
                   /\ UNCHANGED <<task, wg, used_id, run>>
              [] r.kind = "Exit" ->
                   /\ run' = "exited"
                   /\ UNCHANGED <<task, fpc, wg, used_id>>
    /\ UNCHANGED <<inputs, anon_id_tracker, lock_holder, poisoned, failed_case,
                   non_dcm_cases, fs, clobbered, summary>>

\* canonicalize finds the FAILED_CASES directory: a copy was stored below it
failed_cases_path_exists(files) ==
    \E path \in DOMAIN files :
        /\ Len(path) > Len(destination_path \o FAILED_CASES)
        /\ SubSeq(path, 1, Len(destination_path \o FAILED_CASES)) = destination_path \o FAILED_CASES

\* the unwrap_or_else handler of the main loop: count the failure and copy the
\* source file, all under the failed_case lock; when the FAILED_CASES
\* directory is missing and create_dir_all fails, failed_case_copy calls exit(1)
failed_case_copy(f) ==
    /\ run = "loop" /\ fpc[f] = "failed"
    /\ failed_case' = failed_case + 1
    /\ \E dir_created \in (IF failed_cases_path_exists(fs) THEN {TRUE} ELSE BOOLEAN) :
         IF dir_created
         THEN LET final_failed_path ==
                      check_if_dup_exists(DOMAIN fs,
                                          destination_path \o FAILED_CASES \o all_files[f].file_name)
              IN /\ fs' = store(fs, final_failed_path, f)
                 /\ fpc' = [fpc EXCEPT ![f] = "failed_copied"]
                 /\ UNCHANGED run
         ELSE /\ run' = "exited"
              /\ fpc' = [fpc EXCEPT ![f] = "failed_counted"]
              /\ UNCHANGED fs
    /\ UNCHANGED <<inputs, anon_id_tracker, lock_holder, poisoned, non_dcm_cases, wg,
                   task, clobbered, used_id, summary>>

\* the action prefix of generate_dicom_file_name
ActionPrefix == IF mode = "anon" THEN <<"A", "N", "O", "N">> ELSE <<"D", "e", "I", "D">>

\* a write task up to its full_path: the names, the target directory, and the
\* check for an existing file; a failing create_target_dir panics the task and
\* the pool, which has no panic handler, aborts the process
write_check(f) ==
    /\ Alive /\ task[f].st = "queued" /\ Idle
    /\ \E dir_created \in BOOLEAN :
         IF dir_created
         THEN LET file_name == generate_dicom_file_name(task[f].values, ActionPrefix)
                  dir_path == generate_dicom_file_path(task[f].values, destination_path)
                  full_path == check_if_dup_exists(DOMAIN fs, dir_path \o <<"/">> \o file_name)
              IN /\ task' = [task EXCEPT ![f].st = "checked", ![f].full_path = full_path]
                 /\ UNCHANGED run
         ELSE /\ run' = "aborted"
              /\ UNCHANGED task
    /\ UNCHANGED <<inputs, fpc, anon_id_tracker, lock_holder, poisoned, failed_case,
                   non_dcm_cases, wg, fs, clobbered, used_id, summary>>

\* the rest of a write task: File::create (truncating what is there),
\* write_all, drop(wg); a failure of either panics the task
write_create(f) ==
    /\ Alive /\ task[f].st = "checked"
    /\ \E written \in BOOLEAN :
         IF written
         THEN /\ fs' = store(fs, task[f].full_path, f)
              /\ clobbered' = IF task[f].full_path \in DOMAIN fs
                              THEN clobbered \cup {task[f].full_path} ELSE clobbered
              /\ task' = [task EXCEPT ![f].st = "done"]
              /\ wg' = wg - 1
              /\ UNCHANGED run
         ELSE /\ run' = "aborted"
              /\ UNCHANGED <<fs, clobbered, task, wg>>
    /\ UNCHANGED <<inputs, fpc, anon_id_tracker, lock_holder, poisoned, failed_case,
                   non_dcm_cases, used_id, summary>>

\* what print_status prints
print_status(total_len, total_proc_failed_files, total_non_dcm_files) ==
    [ total |-> total_len, failed |-> total_proc_failed_files,
      non_dcm |-> total_non_dcm_files,
      processed |-> total_len - (total_proc_failed_files + total_non_dcm_files) ]

\* the parallel loop has consumed every file: a worker's panic resumes on the
\* orchestrator, otherwise pb.finish() and print_status
loop_end ==
    /\ run = "loop"
    /\ \A f \in Files : fpc[f] \in Outcomes \cup {"panicked"}
    /\ IF \E f \in Files : fpc[f] = "panicked"
       THEN /\ run' = "panicked"
            /\ UNCHANGED summary
       ELSE /\ run' = "waiting"
            /\ summary' = print_status(NumFiles, failed_case, non_dcm_cases)
    /\ UNCHANGED <<inputs, fpc, anon_id_tracker, lock_holder, poisoned, failed_case,
                   non_dcm_cases, wg, task, fs, clobbered, used_id>>

\* a wait that returns without counting the clones
wg_wait_uncounted ==
    /\ run = "waiting"
    /\ run' = "done"
    /\ UNCHANGED <<inputs, fpc, anon_id_tracker, lock_holder, poisoned, failed_case,
                   non_dcm_cases, wg, task, fs, clobbered, used_id, summary>>

\* wg.wait() returns once every clone is dropped; then "complete!" and Ok(())
wg_wait ==
    /\ run = "waiting"
    /\ wg = 0
    /\ run' = "done"
    /\ UNCHANGED <<inputs, fpc, anon_id_tracker, lock_holder, poisoned, failed_case,
                   non_dcm_cases, wg, task, fs, clobbered, used_id, summary>>

Next ==
    \/ \E f \in Files : copy_non_dicom_files(f)
    \/ \E f \in Files : anon_open(f)
    \/ \E f \in Files : anon_lock(f)
    \/ \E f \in Files : anon_each_dcm_file(f)
    \/ \E f \in Files : deid_file(f)
    \/ \E f \in Files : failed_case_copy(f)
    \/ \E f \in Files : write_check(f)
    \/ \E f \in Files : write_create(f)
    \/ loop_end
    \/ wg_wait

Spec == Init /\ [][Next]_vars

\* ------------------------------------------------------------------------
\* The rule steps of deid_each_dcm_file on one record, step by step
\* ------------------------------------------------------------------------
RuleCookbooks ==
    { [ match_id |-> "PatientID", mask_tag |-> m, mask_vr |-> v, delete_tag |-> d,
        private_tags_del |-> p, add |-> a ] :
        m \in { <<>>, <<"InstitutionName">>, <<"PatientID", "PatientName">> },
        v \in { <<>>, <<"PN">> },
        d \in { <<>>, <<"InstitutionName">> },
        p \in BOOLEAN,
        a \in { <<>>,
                [ InstitutionName |-> <<"S", "i", "t", "e">> ],
                [ InstitutionName |-> <<"S", "i", "t", "e">>,
                  ClinicalTrialSponsorName |-> <<"T", "r", "i", "a", "l", "N", "a", "m", "e">> ],
                [ OriginalAttributesSequence |-> <<"x">> ],
                [ StudyDate |-> <<"2", "0", "2", "4", "0", "2", "0", "3">> ],
                [ StudyDate |-> <<"2", "0", "2", "3">> ],
                [ StudyDate |-> <<"2", "0", "2", "3", "A", "B", "0", "1">> ],
                [ StudyTime |-> <<"1", "0", ":", "1", "5", "a">> ],
                [ AcquisitionDateTime |-> <<"2", "0", "2", "3", "0", "1", "0", "1">> ],
                [ ClinicalTrialTimePointID |->
                    <<"P", "a", "t", "i", "e", "n", "t", "I", "D", "_", "S", "t", "u", "d", "y", "D", "a", "t", "e", "T", "S", "t", "u", "d", "y", "T", "i", "m", "e", "_", "M", "o", "d", "a", "l", "i", "t", "y">> ] } }

RuleRecords ==
    { Record(U1),
      put(Record(U1), INSTITUTION_NAME, Prim("LO", <<"H", "o", "s", "p">>)),
      remove_element(Record(U1), PATIENT_ID),
      put(Record(U1), ORIGINAL_ATTRIBUTES_SEQUENCE, SeqEl(<<NestedItem>>)),
      Record(U2) }

RuleTable == Obj(<< <<U1, DEID_001>> >>)

\* no run is going on
RunOff ==
    /\ mode = "rules"
    /\ anon_prefix = <<>>
    /\ cookbook = DefaultCookbook
    /\ mapping_dict = RuleTable
    /\ all_files = <<>>
    /\ run = "off"
    /\ fpc = <<>>
    /\ anon_id_tracker = <<>>
    /\ lock_holder = 0
    /\ poisoned = FALSE
    /\ failed_case = 0
    /\ non_dcm_cases = 0
    /\ wg = 0
    /\ task = <<>>
    /\ fs = <<>>
    /\ clobbered = {}
    /\ used_id = <<>>
    /\ summary = NoSummary

InitRules ==
    /\ RunOff
    /\ rule_cfg \in RuleCookbooks
    /\ rule_in \in RuleRecords
    /\ rule_id = <<>>
    /\ rule_obj = rule_in
    /\ rule_log = <<>>
    /\ rule_pc = "start"

\* the match field and the lookup in the mapping table
rule_lookup ==
    /\ rule_pc = "start"
    /\ LET tag_to_match == element_str(rule_in, TagOf(rule_cfg.match_id))
       IN IF ~IsOk(tag_to_match)
          THEN rule_pc' = "failed" /\ UNCHANGED rule_id
          ELSE LET patient_deid == lookup_deid(mapping_dict, tag_to_match.v)
               IN /\ rule_id' = patient_deid
                  /\ rule_pc' = IF patient_deid = <<>> THEN "skipped" ELSE "chain"
    /\ UNCHANGED <<run_vars, rule_cfg, rule_in, rule_obj, rule_log>>

\* what a failed step makes of the file
FailurePc(r) ==
    CASE r.kind = "Err" -> "failed" [] r.kind = "Panic" -> "panicked" [] r.kind = "Exit" -> "exited"

\* the next rule step of the chain
rule_step ==
    /\ rule_pc = "chain"
    /\ Len(rule_log) < Len(deid_chain(rule_cfg))
    /\ \E order \in IterationOrders(DOMAIN rule_cfg.add) :
         LET step == deid_chain(rule_cfg)[Len(rule_log) + 1]
             r == deid_step(step, rule_obj, rule_cfg, rule_id, order)
         IN IF IsOk(r)
            THEN /\ rule_obj' = r.v
                 /\ rule_log' = Append(rule_log, step)
                 /\ UNCHANGED rule_pc
            ELSE /\ rule_pc' = FailurePc(r)
                 /\ UNCHANGED <<rule_obj, rule_log>>
    /\ UNCHANGED <<run_vars, rule_cfg, rule_in, rule_id>>

\* the chain is through: the path values, then the hand-off to the write task
rule_handoff ==
    /\ rule_pc = "chain"
    /\ Len(rule_log) = Len(deid_chain(rule_cfg))
    /\ LET values == get_sanitized_tag_values(rule_obj)
       IN rule_pc' = IF IsOk(values) THEN "handed" ELSE FailurePc(values)
    /\ UNCHANGED <<run_vars, rule_cfg, rule_in, rule_id, rule_obj, rule_log>>

NextRules == rule_lookup \/ rule_step \/ rule_handoff

SpecRules == InitRules /\ [][NextRules]_vars

\* ------------------------------------------------------------------------
\* The substitution steps of anon_each_dcm_file on one record, step by step
\* ------------------------------------------------------------------------
\* an identifier of the given number of components, the last ones being tail
UidOf(n, tail) ==
    Join([i \in 1..n |-> IF i = n THEN tail ELSE IF i = n - 1 THEN <<"7", "7">> ELSE <<"1">>], ".")

\* the record with its four identifiers of n components each
WithUids(obj, n) ==
    PutAll(PutAll(obj, << <<TagOf("SOPInstanceUID"), "UI">>,
                          <<TagOf("SeriesInstanceUID"), "UI">>,
                          <<TagOf("FrameOfReferenceUID"), "UI">> >>, UidOf(n, <<"5">>)),
           << <<TagOf("StudyInstanceUID"), "UI">> >>, UidOf(n, <<"1", "2", "3", "4", "5", "6", "7">>))

\* a record with a date-time, an age and a sex
Dated(obj) ==
    put(put(put(obj, TagOf("AcquisitionDateTime"),
                Prim("DT", <<"2", "0", "2", "3", "0", "1", "0", "1", "1", "0", "1", "5", "0", "0">>)),
            PATIENT_AGE, Prim("AS", <<"0", "4", "2", "Y">>)),
        PATIENT_SEX, Prim("CS", <<"F">>))

AnonRecords ==
    { Record(U1),
      Record(U2),
      WithUids(Record(U1), 8),
      WithUids(Record(U1), 9),
      WithUids(Record(U2), 16),
      Dated(Record(U1)),
      put(Record(U1), ORIGINAL_ATTRIBUTES_SEQUENCE, SeqEl(<<NestedItem>>)),
      put(Record(U2), TagOf("StudyInstanceUID"), Prim("UI", ShortUid)),
      remove_element(Record(U1), TagOf("FrameOfReferenceUID")),
      remove_element(remove_element(Record(U2), TagOf("StudyDate")), TagOf("StudyTime")) }

\* identities as the registry holds them
AnonIds == { new_anon_id(p, id) : p \in {<<>>, SITE1}, id \in GenIds }

InitAnon ==
    /\ RunOff
    /\ rule_cfg = DefaultCookbook
    /\ rule_in \in AnonRecords
    /\ rule_id \in AnonIds
    /\ rule_obj = rule_in
    /\ rule_log = <<>>
    /\ rule_pc = "chain"

\* The substitution steps anon_each_dcm_file applies to a record, in the
\* order of its code
anon_chain ==
    <<"mask_tags_with_id", "dicom_anon_date_time", "delete_private_tags", "anon_dicom_uids">>

\* one substitution step on a record
anon_step(step, obj, patient_anon_id) ==
    CASE step = "mask_tags_with_id" -> mask_tags_with_id(obj, patient_anon_id)
      [] step = "dicom_anon_date_time" -> dicom_anon_date_time(obj)
      [] step = "delete_private_tags" -> delete_private_tags(obj)
      [] step = "anon_dicom_uids" -> anon_dicom_uids(obj)

\* the next substitution step
anon_rule_step ==
    /\ rule_pc = "chain"
    /\ Len(rule_log) < Len(anon_chain)
    /\ LET step == anon_chain[Len(rule_log) + 1]
           r == anon_step(step, rule_obj, rule_id)
       IN IF IsOk(r)
          THEN /\ rule_obj' = r.v
               /\ rule_log' = Append(rule_log, step)
               /\ UNCHANGED rule_pc
          ELSE /\ rule_pc' = FailurePc(r)
               /\ UNCHANGED <<rule_obj, rule_log>>
    /\ UNCHANGED <<run_vars, rule_cfg, rule_in, rule_id>>

\* the steps are through: the path values, then the hand-off to the write task
anon_rule_handoff ==
    /\ rule_pc = "chain"
    /\ Len(rule_log) = Len(anon_chain)
    /\ LET values == get_sanitized_tag_values(rule_obj)
       IN rule_pc' = IF IsOk(values) THEN "handed" ELSE FailurePc(values)
    /\ UNCHANGED <<run_vars, rule_cfg, rule_in, rule_id, rule_obj, rule_log>>

NextAnon == anon_rule_step \/ anon_rule_handoff

SpecAnon == InitAnon /\ [][NextAnon]_vars

\* ------------------------------------------------------------------------
\* Properties of a run
\* ------------------------------------------------------------------------
IsRecord(f) == IsOk(all_files[f].dcm)

\* the subject key of a record: its PatientID
SubjectKey(f) == element_str(all_files[f].dcm.v, PATIENT_ID)

\* file f was transformed and handed to a write task
Handed(f) == task[f].st # "none"

\* the files whose transformation failed and whose handler ran
FailedCounted == { f \in Files : fpc[f] \in {"failed_copied", "failed_counted"} }

\* C1: in an anonymization run all records of one subject key are transformed
\* with one identity, the registry's entry for that key, whichever worker
\* came first
C1_IdentityConsistency ==
    mode = "anon" =>
        \A f \in Files, g \in Files :
            /\ (used_id[f] # <<>> /\ used_id[g] # <<>> /\ SubjectKey(f) = SubjectKey(g))
                   => /\ used_id[f] = used_id[g]
                      /\ used_id[f] = anon_id_tracker[SubjectKey(f).v]
            /\ Handed(f) => task[f].obj[PATIENT_ID].val = used_id[f]

C1_Witness ==
    /\ mode = "anon" /\ run = "done"
    /\ \E f \in Files, g \in Files, h \in Files :
         /\ f # g
         /\ task[f].st = "done" /\ task[g].st = "done" /\ task[h].st = "done"
         /\ SubjectKey(f) = SubjectKey(g) /\ SubjectKey(f) # SubjectKey(h)

\* C2: when the run reports completion no write task is in flight: every
\* dispatched write task has finished
C2_BarrierAfterWrites == run = "done" => \A f \in Files : task[f].st \in {"none", "done"}

C2_Witness == run = "done" /\ \A f \in Files : task[f].st = "done"

\* C3: no two write tasks write the same final path, and no write lands on
\* existing data
C3_OneFilePerPath ==
    /\ \A f \in Files, g \in Files :
         (f # g /\ task[f].st = "done" /\ task[g].st = "done")
             => task[f].full_path # task[g].full_path
    /\ \A f \in Files : task[f].st = "done" => task[f].full_path \notin clobbered

\* C4: no per-file error ends the run, and once the loop is over every file
\* has one of the four outcomes
C4_PerFileErrorsConfined ==
    /\ run # "panicked"
    /\ run \in {"waiting", "done"} => \A f \in Files : fpc[f] \in Outcomes

\* C5: a failure inside a write task does not crash the run
C5_WriteFailureConfined == run # "aborted"

\* the record's subject key has no entry in the mapping table
LookupMiss(f) ==
    /\ mode = "deid" /\ IsRecord(f)
    /\ IsOk(element_str(all_files[f].dcm.v, TagOf(cookbook.match_id)))
    /\ element_str(all_files[f].dcm.v, TagOf(cookbook.match_id)).v \notin DOMAIN mapping_dict

\* C6: a record without an entry in the mapping table is skipped: no write
\* task, no file of the destination tree holds it, and the failure counter
\* counts the failed-case copies only
C6_LookupMissSkipped ==
    /\ \A f \in Files :
         LookupMiss(f) => /\ fpc[f] \in {"todo", "skipped"}
                          /\ task[f].st = "none"
                          /\ \A path \in DOMAIN fs : fs[path] # f
    /\ failed_case = Cardinality(FailedCounted)

C6_Witness ==
    /\ run = "done"
    /\ \E f \in Files, g \in Files :
         /\ LookupMiss(f) /\ fpc[f] = "skipped"
         /\ fpc[g] = "failed_copied"

\* the names a rule set adds or deletes
Overridden(cfg) == (DOMAIN cfg.add) \cup Range(cfg.delete_tag)

\* the transformed record of f carries the table's identity in every field
\* the rule set masks by reference or by value type and does not add or delete
MaskedWithTableIdentity(f) ==
    LET key == element_str(all_files[f].dcm.v, TagOf(cookbook.match_id)).v
        out == task[f].obj
        over == { TagOf(n) : n \in Overridden(cookbook) }
    IN /\ key \in DOMAIN mapping_dict
       /\ \A n \in Range(cookbook.mask_tag) \ Overridden(cookbook) :
            TagOf(n) \in DOMAIN out /\ out[TagOf(n)].val = mapping_dict[key]
       /\ \A t \in (DOMAIN out) \ over :
            out[t].vr \in Range(cookbook.mask_vr) => out[t].val = mapping_dict[key]

\* C7: in a deidentification run the identity map never changes, and every
\* transformed record carries the table's identity for its subject key
C7_ReadOnlyMap ==
    /\ [][mode = "deid" => mapping_dict' = mapping_dict]_vars
    /\ [](mode = "deid" => \A f \in Files : Handed(f) => MaskedWithTableIdentity(f))

C7_Witness ==
    /\ mode = "deid" /\ run = "done"
    /\ \E f \in Files, g \in Files :
         /\ task[f].st = "done" /\ task[g].st = "done"
         /\ element_str(all_files[f].dcm.v, PATIENT_ID) # element_str(all_files[g].dcm.v, PATIENT_ID)

\* a record of f has an identifier of fewer than 8 components
ShortUidRecord(f) ==
    /\ IsRecord(f)
    /\ \E n \in Range(uid_tag_list) :
         /\ TagOf(n) \in DOMAIN all_files[f].dcm.v
         /\ Len(Split(all_files[f].dcm.v[TagOf(n)].val, ".")) < UidSkip

\* C13: in an anonymization run a record with an identifier of fewer than 8
\* components is a failed case of its own: its worker does not panic, the
\* loop goes on, and once the loop is over the file is a failed-case copy
C13_ShortUidIsFileFailure ==
    mode = "anon" =>
        \A f \in Files :
            ShortUidRecord(f) =>
                /\ fpc[f] # "panicked"
                /\ ~poisoned
                /\ (run \in {"waiting", "done"} => fpc[f] = "failed_copied")

\* k times the suffix check_if_dup_exists adds
Tildes(k) == [i \in 1..k |-> "~"]

\* the path of the failed-case copy of f with k suffixes
FailedPath(f, k) == destination_path \o FAILED_CASES \o all_files[f].file_name \o Tildes(k)

\* C18: every file whose transformation failed is counted once and has a
\* copy of its own under FAILED_CASES, named as the source file with zero or
\* more suffixes; no copy is overwritten, whatever the workers' interleaving
C18_FailedCopiesKept ==
    /\ failed_case = Cardinality(FailedCounted)
    /\ \A f \in Files :
         fpc[f] = "failed_copied" =>
             \E k \in 0..(NumFiles - 1) :
                 /\ FailedPath(f, k) \in DOMAIN fs
                 /\ fs[FailedPath(f, k)] = f
                 /\ FailedPath(f, k) \notin clobbered

C18_Witness ==
    /\ run = "done"
    /\ \E f \in Files, g \in Files :
         /\ f # g
         /\ fpc[f] = "failed_copied" /\ fpc[g] = "failed_copied"
         /\ all_files[f].file_name = all_files[g].file_name
         /\ fs[FailedPath(f, 0)] = f
         /\ fs[FailedPath(g, 1)] = g
         /\ failed_case = 2

\* the path of the NON_DICOM copy of f
NonDicomPath(f) == destination_path \o NON_DICOM \o all_files[f].file_name

\* C19: every file that is not a record is counted once and has a copy of
\* its own under NON_DICOM
C19_NonRecordsKept ==
    /\ non_dcm_cases = Cardinality({ f \in Files : fpc[f] = "non_record" })
    /\ \A f \in Files :
         fpc[f] = "non_record" => \E path \in DOMAIN fs : fs[path] = f

\* C20: the processed count of the summary is the number of records handed
\* to the write stage
C20_ProcessedIsHanded ==
    run \in {"waiting", "done"} =>
        summary.processed = Cardinality({ f \in Files : fpc[f] = "handed" })

\* ------------------------------------------------------------------------
\* Properties of the rule steps
\* ------------------------------------------------------------------------
MaskSteps == {"tags_to_mask", "mask_vr"}

DeleteSteps == {"tags_to_delete", "delete_private_tags"}

\* C8: the rule steps are applied in the order mask, add, delete: every
\* masking step comes before the add step and every delete step, the purge
\* of private fields included, after it
C8_MaskAddDelete ==
    \A i \in DOMAIN rule_log, j \in DOMAIN rule_log :
        /\ (rule_log[i] \in MaskSteps /\ rule_log[j] = "tags_to_add") => i < j
        /\ (rule_log[i] = "tags_to_add" /\ rule_log[j] \in DeleteSteps) => i < j

\* C9: a field the rule set both masks and adds holds the literal of the add
\* rule in the transformed record, and is absent when the rule set also
\* deletes it
C9_AddOverridesMask ==
    rule_pc = "handed" =>
        \A n \in (DOMAIN rule_cfg.add) \cap Range(rule_cfg.mask_tag) :
            IF n \in Range(rule_cfg.delete_tag)
            THEN TagOf(n) \notin DOMAIN rule_obj
            ELSE /\ TagOf(n) \in DOMAIN rule_obj
                 /\ rule_obj[TagOf(n)].val = rule_cfg.add[n]

C9_Witness ==
    /\ rule_pc = "handed"
    /\ "InstitutionName" \in (DOMAIN rule_cfg.add) \cap Range(rule_cfg.mask_tag)
    /\ "InstitutionName" \notin Range(rule_cfg.delete_tag)
    /\ INSTITUTION_NAME \in DOMAIN rule_in
    /\ rule_obj[INSTITUTION_NAME].val = rule_cfg.add["InstitutionName"]
    /\ rule_obj[INSTITUTION_NAME].val # rule_id

RECURSIVE HasPrivate(_)
\* the object holds a private element, at the top or in an item of a sequence
HasPrivate(obj) ==
    \E t \in DOMAIN obj :
        \/ is_private(t)
        \/ /\ obj[t].vr = "SQ"
           /\ \E i \in 1..Len(obj[t].items) : HasPrivate(obj[t].items[i])

\* C10: after delete_private_tags the record holds no private field at any
\* nesting level
C10_NoPrivateAtAnyLevel ==
    (rule_log # <<>> /\ rule_log[Len(rule_log)] = "delete_private_tags")
        => ~HasPrivate(rule_obj)

\* ------------------------------------------------------------------------
\* Properties of the substitution steps of anonymization
\* ------------------------------------------------------------------------
\* the identifiers have been remapped
Remapped == Len(rule_log) = Len(anon_chain)

\* the components of the identifier named n in the decoded record
OrgUid(n) == Split(rule_in[TagOf(n)].val, ".")

\* the components of the identifier named n in the record as transformed
NewUid(n) == Split(rule_obj[TagOf(n)].val, ".")

UidNames == Range(uid_tag_list)

\* new is the fixed prefix followed by the last 8 components of org
KeepsLastEight(org, new) ==
    /\ Len(org) >= 8
    /\ new = anon_uid_prefix \o SubSeq(org, Len(org) - 7, Len(org))

\* the components of an identifier after its eighth
AfterEighth(org) == SubSeq(org, 9, Len(org))

\* new is the fixed prefix followed by the components of org after its eighth
ReplacesFirstEight(org, new) ==
    /\ Len(org) >= 8
    /\ Len(new) = Len(anon_uid_prefix) + Len(org) - 8
    /\ SubSeq(new, 1, Len(anon_uid_prefix)) = anon_uid_prefix
    /\ SubSeq(new, Len(anon_uid_prefix) + 1, Len(new)) = AfterEighth(org)

\* C12: each remapped identifier is the fixed prefix followed by exactly the
\* last 8 components of the original
C12_LastEightKept ==
    Remapped => \A n \in UidNames : KeepsLastEight(OrgUid(n), NewUid(n))

\* C12, amended: each remapped identifier is the fixed prefix followed by
\* exactly the components of the original after its first 8, whatever their
\* number, so it is determined by those components alone
C12_FirstEightReplaced ==
    Remapped => \A n \in UidNames : ReplacesFirstEight(OrgUid(n), NewUid(n))

C12_Witness ==
    /\ Remapped
    /\ Len(OrgUid("StudyInstanceUID")) = 10
    /\ NewUid("StudyInstanceUID")
          = anon_uid_prefix \o <<<<"7", "7">>, <<"1", "2", "3", "4", "5", "6", "7">>>>
    /\ Len(OrgUid("SOPInstanceUID")) = 10
    /\ Len(NewUid("SOPInstanceUID")) = 11

RECURSIVE AllOfVr(_, _, _)
\* every element of value type vr holds val, in obj and in the items of its
\* sequences at any depth
AllOfVr(obj, vr, val) ==
    \A t \in DOMAIN obj :
        /\ obj[t].vr = vr => obj[t].val = val
        /\ obj[t].vr = "SQ" => \A i \in 1..Len(obj[t].items) : AllOfVr(obj[t].items[i], vr, val)

\* C14: after the substitution steps of anonymization every date field of
\* the record holds 19000101, every time field 090000, every date-time field
\* 19000101T090000, PatientAge is 099Y and PatientSex is O
C14_DateTimeScrubbed ==
    rule_pc = "handed" =>
        /\ AllOfVr(rule_obj, "DA", date_str)
        /\ AllOfVr(rule_obj, "TM", time_str)
        /\ AllOfVr(rule_obj, "DT", date_str \o <<"T">> \o time_str)
        /\ rule_obj[PATIENT_AGE].val = <<"0", "9", "9", "Y">>
        /\ rule_obj[PATIENT_SEX].val = <<"O">>

\* the record right after the purge of private fields, the first rule step
JustPurged == rule_log = <<"delete_private_tags">>

\* C11: delete_private_tags removes no even-group field but the top-level
\* OriginalAttributesSequence, and every even-group field it leaves holds
\* what it held, its nested items included
C11_EvenGroupUntouched ==
    JustPurged =>
        /\ \A t \in DOMAIN rule_in :
             (~is_private(t) /\ t # ORIGINAL_ATTRIBUTES_SEQUENCE)
                 => (t \in DOMAIN rule_obj /\ rule_obj[t] = rule_in[t])
        /\ \A t \in DOMAIN rule_obj : t \in DOMAIN rule_in /\ ~is_private(t)

C11_Witness ==
    /\ JustPurged
    /\ ORIGINAL_ATTRIBUTES_SEQUENCE \in DOMAIN rule_in
    /\ ORIGINAL_ATTRIBUTES_SEQUENCE \notin DOMAIN rule_obj
    /\ <<9, 16>> \in DOMAIN rule_in /\ <<9, 16>> \notin DOMAIN rule_obj
    /\ HasPrivate(rule_obj)
    /\ rule_obj[TagOf("ReferencedImageSequence")] = SeqEl(<<Nested3, NestedItem>>)

\* masking by reference was the first rule step applied
JustMaskedTags == rule_log = <<"tags_to_mask">>

\* C15: tags_to_mask gives the identity to the listed fields the record
\* has, creates none of those it lacks, and leaves the rest as it was
C15_AbsentFieldNotCreated ==
    JustMaskedTags =>
        /\ DOMAIN rule_obj = DOMAIN rule_in
        /\ \A t \in DOMAIN rule_in :
             IF t \in { TagOf(n) : n \in Range(rule_cfg.mask_tag) }
             THEN rule_obj[t].val = rule_id
             ELSE rule_obj[t] = rule_in[t]

\* masking by value type was the first rule step applied
JustMaskedVr == rule_log = <<"mask_vr">>

\* C16: mask_vr gives the identity to every field of a listed value type,
\* those inside the items of sequences at any depth included, and changes no
\* field of another type
C16_MaskVrReachesNested ==
    JustMaskedVr =>
        /\ \A vr \in Range(rule_cfg.mask_vr) : AllOfVr(rule_obj, vr, rule_id)
        /\ DOMAIN rule_obj = DOMAIN rule_in
        /\ \A t \in DOMAIN rule_in :
             rule_in[t].vr \notin Range(rule_cfg.mask_vr) \cup {"SQ"} => rule_obj[t] = rule_in[t]

\* value is not a well-formed value of the date or time type vr: 8 digits,
\* 6 digits, 8 digits + T + 6 digits
Malformed(vr, value) ==
    CASE vr = "DA" -> ~(Len(value) = 8 /\ AllDigits(value))
      [] vr = "TM" -> ~(Len(value) = 6 /\ AllDigits(value))
      [] vr = "DT" -> ~(/\ Len(value) = 15
                        /\ value[9] = "T"
                        /\ AllDigits(SubSeq(value, 1, 8))
                        /\ AllDigits(SubSeq(value, 10, 15)))
      [] OTHER -> FALSE

\* the rule set adds a malformed date, time or date-time literal
MalformedAdd(cfg) ==
    \E n \in DOMAIN cfg.add : Malformed(StandardDataDictionary[n].vr, cfg.add[n])

\* C17: a malformed date, time or date-time literal of the add rule ends the
\* process when it is converted: the file is never a failed case, its worker
\* never panics, and the add step never completes
C17_MalformedAborts ==
    (MalformedAdd(rule_cfg) /\ rule_id # <<>>) =>
        /\ rule_pc \in {"chain", "exited"}
        /\ "tags_to_add" \notin Range(rule_log)

\* ------------------------------------------------------------------------
\* Properties of the end of the process
\* ------------------------------------------------------------------------
\* the process ended with a non-zero status: exit(1), a panic resumed on the
\* main thread, or an abort from a pool thread
NonZeroExit == run \in {"exited", "panicked", "aborted"}

\* C21: the process ends with a non-zero status only for a configuration
\* error, here a malformed literal of the add map; nothing that happens to a
\* single file, its copy or its write does
C21_NonZeroOnlyOnConfiguration ==
    NonZeroExit => (run = "exited" /\ MalformedAdd(cookbook))

\* ------------------------------------------------------------------------
\* Properties of the destination path of an anonymized record
\* ------------------------------------------------------------------------
BeginsWith(s, p) == Len(s) >= Len(p) /\ SubSeq(s, 1, Len(p)) = p

\* the directory and file name the write task derives from a record
AnonDir(obj) == generate_dicom_file_path(get_sanitized_tag_values(obj).v, destination_path)

AnonName(obj) == generate_dicom_file_name(get_sanitized_tag_values(obj).v, <<"A", "N", "O", "N">>)

\* the scrubbed study date and time as the path carries them, or the
\* placeholders of a record without them
ScrubbedStudy(obj, time) ==
    (IF TagOf("StudyDate") \in DOMAIN obj THEN date_str ELSE NoValue("StudyDate"))
    \o <<"T">> \o (IF TagOf("StudyTime") \in DOMAIN obj THEN time ELSE NoValue("StudyTime"))

\* subject keys and study dates a record could have had instead
OtherKeys == {U1, U2, <<"Z", "9", " ", "x">>}

OtherDates == {<<"2", "0", "2", "3", "0", "1", "0", "1">>, <<"1", "9", "9", "9", "1", "2", "3", "1">>}

\* the record with another subject key, and another study date if it has one
Reidentified(obj, key, date) ==
    LET keyed == put(obj, PATIENT_ID, Prim("LO", key))
    IN IF TagOf("StudyDate") \in DOMAIN obj
       THEN put(keyed, TagOf("StudyDate"), Prim("DA", date))
       ELSE keyed

\* C22: the directory and file name of an anonymized record come from its
\* transformed values: they carry the substitute identity and the scrubbed
\* study date and time, and a record that differs in its original PatientID
\* and study date only gets the same directory and file name
C22_PathFromTransformed ==
    rule_pc = "handed" =>
        /\ BeginsWith(AnonDir(rule_obj),
                      destination_path \o <<"/">> \o rule_id \o <<"/">>
                      \o ScrubbedStudy(rule_in, time_str) \o <<"_">>)
        /\ BeginsWith(AnonName(rule_obj),
                      <<"A", "N", "O", "N", "_">> \o rule_id \o <<"_", "M", "R", "_">>
                      \o ScrubbedStudy(rule_in, time_str) \o <<"_">>)
        /\ \A key \in OtherKeys, date \in OtherDates :
              LET other == anon_transform(Reidentified(rule_in, key, date), rule_id)
              IN /\ IsOk(other)
                 /\ AnonDir(other.v.obj) = AnonDir(rule_obj)
                 /\ AnonName(other.v.obj) = AnonName(rule_obj)

C22_Witness ==
    /\ rule_pc = "handed"
    /\ rule_in[PATIENT_ID].val = U1
    /\ TagOf("StudyDate") \in DOMAIN rule_in
    /\ BeginsWith(rule_id, SITE1)
    /\ AnonDir(rule_in) # AnonDir(rule_obj)
    /\ AnonName(rule_in) # AnonName(rule_obj)

\* ------------------------------------------------------------------------
\* Properties of the summary
\* ------------------------------------------------------------------------
\* print_status has printed the summary of the run
SummaryPrinted == summary # NoSummary

\* C23: when the summary of the run is printed no write task is in flight:
\* every dispatched write task has finished
C23_SummaryAfterWrites ==
    SummaryPrinted => \A f \in Files : task[f].st \in {"none", "done"}

\* ------------------------------------------------------------------------
\* The path helpers of a write task on one text and one destination directory
\* ------------------------------------------------------------------------
\* the longest text
MaxText == 3

\* the longest chain of suffixed files in the destination at the start
MaxTildes == 2

\* texts of a free-text field: letters, a digit and characters outside
\* [A-Za-z0-9]
Texts == UNION { [1..k -> {"a", "Z", "7", "_", "-"}] : k \in 0..MaxText }

\* the path of the text's file under the destination
TextPath(text) == destination_path \o <<"/">> \o text

\* destinations that hold some of path, path~, path~~, ...
Destinations(path) ==
    { [q \in held |-> 0] : held \in SUBSET { path \o [i \in 1..k |-> "~"] : k \in 0..MaxTildes } }

InitPath ==
    /\ mode = "path"
    /\ anon_prefix = <<>>
    /\ cookbook = DefaultCookbook
    /\ mapping_dict = <<>>
    /\ all_files = <<>>
    /\ run = "off"
    /\ fpc = <<>>
    /\ anon_id_tracker = <<>>
    /\ lock_holder = 0
    /\ poisoned = FALSE
    /\ failed_case = 0
    /\ non_dcm_cases = 0
    /\ wg = 0
    /\ task = <<>>
    /\ clobbered = {}
    /\ used_id = <<>>
    /\ summary = NoSummary
    /\ rule_cfg = DefaultCookbook
    /\ rule_id = <<>>
    /\ rule_in \in Texts
    /\ rule_obj = <<>>
    /\ rule_log = <<>>
    /\ fs \in Destinations(TextPath(replace_non_alphanumeric(rule_in)))
    /\ rule_pc = "text"

\* replace_non_alphanumeric on the text, as generate_dicom_file_path calls it
path_text ==
    /\ rule_pc = "text"
    /\ rule_obj' = replace_non_alphanumeric(rule_in)
    /\ rule_pc' = "check"
    /\ UNCHANGED <<run_vars, rule_cfg, rule_in, rule_id, rule_log>>

\* check_if_dup_exists on the path: it only asks whether paths exist
path_check ==
    /\ rule_pc = "check"
    /\ rule_log' = check_if_dup_exists(DOMAIN fs, TextPath(rule_obj))
    /\ rule_pc' = "create"
    /\ UNCHANGED <<run_vars, rule_cfg, rule_in, rule_id, rule_obj>>

\* File::create and write_all at the path check_if_dup_exists returned
path_create ==
    /\ rule_pc = "create"
    /\ fs' = store(fs, rule_log, 1)
    /\ clobbered' = IF rule_log \in DOMAIN fs THEN clobbered \cup {rule_log} ELSE clobbered
    /\ rule_pc' = "written"
    /\ UNCHANGED <<mode, anon_prefix, cookbook, mapping_dict, all_files, run, fpc,
                   anon_id_tracker, lock_holder, poisoned, failed_case, non_dcm_cases, wg,
                   task, used_id, summary, rule_cfg, rule_in, rule_id, rule_obj, rule_log>>

NextPath == path_text \/ path_check \/ path_create

SpecPath == InitPath /\ [][NextPath]_vars

\* ------------------------------------------------------------------------
\* Properties of the path helpers
\* ------------------------------------------------------------------------
\* replace_non_alphanumeric has run on the text
Replaced == rule_pc # "text"

NonAlphaNumeric(s, i) == s[i] \notin AlphaNumeric

\* the runs of non-alphanumeric characters that begin in s[1..i]
RunsUpTo(s, i) ==
    Cardinality({ j \in 1..i : NonAlphaNumeric(s, j) /\ (j = 1 \/ ~NonAlphaNumeric(s, j - 1)) })

\* where the character s[i] goes: after the alphanumeric characters and the
\* runs before it; the characters of one run go to one place
PlaceOf(s, i) == Cardinality({ j \in 1..i : ~NonAlphaNumeric(s, j) }) + RunsUpTo(s, i)

\* C24 as stated: every character outside [A-Za-z0-9] becomes one '_' of its
\* own and every other character is kept, in order
C24_EachReplaced ==
    Replaced =>
        /\ Len(rule_obj) = Len(rule_in)
        /\ \A i \in 1..Len(rule_in) :
              rule_obj[i] = IF NonAlphaNumeric(rule_in, i) THEN "_" ELSE rule_in[i]

\* C24, amended: every alphanumeric character is kept, in order, and every
\* run of characters outside [A-Za-z0-9] becomes one '_'; the result holds
\* characters of [A-Za-z0-9_] only
C24_RunsReplaced ==
    Replaced =>
        /\ Len(rule_obj) = PlaceOf(rule_in, Len(rule_in))
        /\ \A i \in 1..Len(rule_in) :
              rule_obj[PlaceOf(rule_in, i)] = IF NonAlphaNumeric(rule_in, i) THEN "_" ELSE rule_in[i]
        /\ \A i \in 1..Len(rule_obj) : rule_obj[i] \in AlphaNumeric \cup {"_"}

C24_Witness ==
    /\ Replaced
    /\ rule_in = <<"-", "_", "Z">>
    /\ rule_obj = <<"_", "Z">>

\* check_if_dup_exists has returned
Checked == rule_pc = "create"

\* C30: check_if_dup_exists returns the path itself when no file is there,
\* and otherwise the path with the least number k >= 1 of '~' after it at
\* which no file is; it ends for every finite destination and leaves the
\* destination as it is
C30_FirstFreePath ==
    /\ [](Checked =>
             LET path == TextPath(rule_obj)
             IN /\ path \notin DOMAIN fs => rule_log = path
                /\ path \in DOMAIN fs =>
                       \E k \in 1..(MaxTildes + 1) :
                           /\ rule_log = path \o Tildes(k)
                           /\ rule_log \notin DOMAIN fs
                           /\ \A j \in 1..(k - 1) : path \o Tildes(j) \in DOMAIN fs)
    /\ [][rule_pc = "check" => (rule_pc' = "create" /\ fs' = fs)]_vars

C30_Witness ==
    /\ Checked
    /\ rule_in = <<"a", "-", "7">>
    /\ DOMAIN fs = {TextPath(rule_obj), TextPath(rule_obj) \o <<"~">>}
    /\ rule_log = TextPath(rule_obj) \o <<"~", "~">>

\* ------------------------------------------------------------------------
\* What dicom_deid loads before its loop: the rule set and the mapping table
\* ------------------------------------------------------------------------
\* the two-letter codes VR::from_str accepts
VRs == {"AE", "AS", "AT", "CS", "DA", "DS", "DT", "FL", "FD", "IS", "LO", "LT", "OB", "OD",
        "OF", "OL", "OV", "OW", "PN", "SH", "SL", "SQ", "SS", "ST", "SV", "TM", "UC", "UI",
        "UL", "UN", "UR", "US", "UT", "UV"}

check_valid_tag_vec(tag_vec) ==
    SelectSeq(tag_vec, LAMBDA each : each \in DOMAIN StandardDataDictionary)

check_valid_vr_vec(vrs_vec) == SelectSeq(vrs_vec, LAMBDA each : each \in VRs)

\* a validation that keeps every entry of the map
check_valid_tag_hashmap_all(tag_hash) == tag_hash

check_valid_tag_hashmap(tag_hash) ==
    [each \in (DOMAIN tag_hash) \cap (DOMAIN StandardDataDictionary) |-> tag_hash[each]]

\* a match that takes any name the dictionary resolves
match_id_as_configured(matchid) ==
    IF matchid = <<>> THEN "PatientID"
    ELSE IF matchid[1] \in DOMAIN StandardDataDictionary THEN matchid[1]
    ELSE "PatientID"

\* the match on matchid.tag: a missing section counts as PatientID
match_id_of(matchid) ==
    IF matchid = <<>> THEN "PatientID"
    ELSE IF matchid[1] = "PatientID" THEN "PatientID"
    ELSE IF matchid[1] = "PatientName" THEN "PatientName"
    ELSE "PatientID"

\* toml_des: the sections of a cookbook file that deserializes; a missing
\* section is its default
parse_toml_cookbook(toml_des) ==
    [ match_id |-> match_id_of(toml_des.matchid),
      mask_tag |-> check_valid_tag_vec(toml_des.mask_tags),
      mask_vr |-> check_valid_vr_vec(toml_des.mask_vrs),
      add |-> check_valid_tag_hashmap(toml_des.add_tags),
      delete_tag |-> check_valid_tag_vec(toml_des.delete_tags),
      private_tags_del |-> toml_des.private_tags ]

RECURSIVE mapping_lines(_, _)
\* the loop over reader.lines() from data_map on
mapping_lines(lines, data_map) ==
    IF lines = <<>> THEN data_map
    ELSE LET parts == Split(Head(lines), ",")
         IN IF Len(parts) = 2 /\ parts[1] # <<>> /\ parts[2] # <<>>
            THEN mapping_lines(Tail(lines), put(data_map, Trim(parts[2]), Trim(parts[1])))
            ELSE mapping_lines(Tail(lines), data_map)

\* table: Err when the file does not open, else Ok of its lines
generate_mapping_dict(table) ==
    IF ~IsOk(table) THEN Exit ELSE Ok(mapping_lines(table.v, <<>>))

\* the most lines of a mapping table
MaxLines == 2

\* mapping table files: one that does not open, and files of lines with
\* two values, a repeated key, blanks around or instead of a value, one
\* value, three values, and no value
MappingFiles ==
    LET TableLines ==
            { <<"D", "1", ",", "U", "1">>,
              <<"D", "2", ",", "U", "1">>,
              <<"D", "2", ",", "U", "2">>,
              <<"D", "1", ",", " ", "U", "1">>,
              <<" ", ",", "U", "1">>,
              <<"D", "1", ",", " ">>,
              <<"D", "1">>,
              <<"D", "1", ",", "U", "1", ",", "x">>,
              <<>>,
              <<",", "U", "1">>,
              <<"D", "1", ",">> }
    IN {Err} \cup { Ok(lines) : lines \in UNION { [1..k -> TableLines] : k \in 0..MaxLines } }

\* the cookbook file of create_default_cookbook
DefaultToml ==
    [ matchid |-> <<"PatientID">>,
      mask_tags |-> <<"PatientID", "PatientName", "InstitutionName", "InstitutionAddress",
                      "StudyID", "AccessionNumber">>,
      mask_vrs |-> <<"PN">>,
      delete_tags |-> <<>>,
      private_tags |-> FALSE,
      add_tags |-> [ PatientIdentityRemoved |-> <<"Y", "e", "s">>,
                     DeidentificationMethod |-> <<"D", "C", "M", "R", "i", "g">>,
                     ClinicalTrialSponsorName |-> <<"T", "r", "i", "a", "l", "N", "a", "m", "e">>,
                     ClinicalTrialTimePointID |-> <<"P", "a", "t", "i", "e", "n", "t", "I", "D", "_", "S", "t", "u", "d", "y", "D", "a", "t", "e", "T", "S", "t", "u", "d", "y", "T", "i", "m", "e", "_", "M", "o", "d", "a", "l", "i", "t", "y">> ] ]

\* cookbook files an operator can have written
Tomls ==
    { [ matchid |-> id, mask_tags |-> m, mask_vrs |-> v, delete_tags |-> d,
        private_tags |-> p, add_tags |-> a ] :
        id \in {<<>>, <<"PatientID">>, <<"PatientName">>, <<"StudyID">>, <<"patientid">>},
        m \in {<<>>, <<"PatientID", "PatientName">>, <<"NoSuchTag">>,
               <<"PatientNam", "StudyID", "Foo", "PatientID", "StudyID">>},
        v \in {<<>>, <<"PN">>, <<"pn", "LO", "XX", "PN">>},
        d \in {<<>>, <<"PatientComments", "NoSuchTag", "InstitutionName">>},
        p \in BOOLEAN,
        a \in {<<>>, DefaultToml.add_tags,
               [ Foo |-> <<"x">> ],
               [ Foo |-> <<"x">>, PatientIdentityRemoved |-> <<"Y", "e", "s">> ]} }

\* a cookbook file with the default table, or the default file with a table
InitLoad ==
    /\ mode = "deid"
    /\ anon_prefix = <<>>
    /\ cookbook = DefaultCookbook
    /\ mapping_dict = <<>>
    /\ all_files = <<>>
    /\ run = "off"
    /\ fpc = <<>>
    /\ anon_id_tracker = <<>>
    /\ lock_holder = 0
    /\ poisoned = FALSE
    /\ failed_case = 0
    /\ non_dcm_cases = 0
    /\ wg = 0
    /\ task = <<>>
    /\ fs = <<>>
    /\ clobbered = {}
    /\ used_id = <<>>
    /\ summary = NoSummary
    /\ rule_cfg \in Tomls \cup {DefaultToml}
    /\ rule_in \in (IF rule_cfg = DefaultToml THEN MappingFiles
                     ELSE {Ok(<< <<"D", "1", ",", "U", "1">> >>)})
    /\ rule_id = <<>>
    /\ rule_obj = <<>>
    /\ rule_log = <<>>
    /\ rule_pc = "cookbook"

\* parse_toml_cookbook()? at the start of dicom_deid
load_cookbook ==
    /\ rule_pc = "cookbook"
    /\ cookbook' = parse_toml_cookbook(rule_cfg)
    /\ rule_pc' = "table"
    /\ UNCHANGED <<mode, anon_prefix, mapping_dict, all_files, run, fpc, anon_id_tracker,
                   lock_holder, poisoned, failed_case, non_dcm_cases, wg, task, fs,
                   clobbered, used_id, summary, rule_cfg, rule_in, rule_id, rule_obj,
                   rule_log>>

\* generate_mapping_dict(&mapping_table): exit(1) when the file does not open
load_table ==
    /\ rule_pc = "table"
    /\ LET data_map == generate_mapping_dict(rule_in)
       IN IF IsOk(data_map)
          THEN /\ mapping_dict' = data_map.v
               /\ rule_pc' = "loaded"
               /\ UNCHANGED run
          ELSE /\ run' = "exited"
               /\ UNCHANGED <<mapping_dict, rule_pc>>
    /\ UNCHANGED <<mode, anon_prefix, cookbook, all_files, fpc, anon_id_tracker,
                   lock_holder, poisoned, failed_case, non_dcm_cases, wg, task, fs,
                   clobbered, used_id, summary, rule_cfg, rule_in, rule_id, rule_obj,
                   rule_log>>

NextLoad == load_cookbook \/ load_table

SpecLoad == InitLoad /\ [][NextLoad]_vars

\* ------------------------------------------------------------------------
\* Properties of the loaded rule set and mapping table
\* ------------------------------------------------------------------------
\* parse_toml_cookbook has returned
CookbookLoaded == rule_pc \in {"table", "loaded"}

\* the entries of list[1..i] that are in valid
ValidUpTo(list, i, valid) == Cardinality({ j \in 1..i : list[j] \in valid })

\* out is list without its entries outside valid, the others in their order
KeepsValid(list, out, valid) ==
    /\ Len(out) = ValidUpTo(list, Len(list), valid)
    /\ \A i \in 1..Len(list) :
          list[i] \in valid => out[ValidUpTo(list, i, valid)] = list[i]

DictionaryNames == DOMAIN StandardDataDictionary

\* C25: validation drops from the mask list, the delete list, the add map
\* and the value-type codes exactly the entries that do not resolve, keeps
\* the others in their order, always returns a rule set, and every name of
\* the rule set resolves at the transform stage
C25_ValidationDropsUnresolved ==
    /\ rule_pc = "cookbook" => ENABLED load_cookbook
    /\ CookbookLoaded =>
          /\ KeepsValid(rule_cfg.mask_tags, cookbook.mask_tag, DictionaryNames)
          /\ KeepsValid(rule_cfg.delete_tags, cookbook.delete_tag, DictionaryNames)
          /\ KeepsValid(rule_cfg.mask_vrs, cookbook.mask_vr, VRs)
          /\ DOMAIN cookbook.add = (DOMAIN rule_cfg.add_tags) \cap DictionaryNames
          /\ \A n \in DOMAIN cookbook.add : cookbook.add[n] = rule_cfg.add_tags[n]
          /\ \A n \in Range(cookbook.mask_tag) \cup Range(cookbook.delete_tag)
                       \cup DOMAIN cookbook.add :
                IsOk(extract_tag_vr_from_str(n))

C25_Witness ==
    /\ CookbookLoaded
    /\ rule_cfg.mask_tags = <<"PatientNam", "StudyID", "Foo", "PatientID", "StudyID">>
    /\ cookbook.mask_tag = <<"StudyID", "PatientID", "StudyID">>
    /\ rule_cfg.mask_vrs = <<"pn", "LO", "XX", "PN">>
    /\ cookbook.mask_vr = <<"LO", "PN">>
    /\ "Foo" \in DOMAIN rule_cfg.add_tags
    /\ DOMAIN cookbook.add = {"PatientIdentityRemoved"}

\* generate_mapping_dict has returned the table
TableLoaded == rule_pc = "loaded"

\* the line has exactly two comma-separated values, none of them blank
TwoValues(line) ==
    /\ Len(Split(line, ",")) = 2
    /\ Trim(Split(line, ",")[1]) # <<>>
    /\ Trim(Split(line, ",")[2]) # <<>>

\* the subject key of a line: its second column
KeyOf(line) == Trim(Split(line, ",")[2])

\* the substitute identity of a line: its first column
IdentityOf(line) == Trim(Split(line, ",")[1])

\* C26: the table maps the second column of every line of two non-empty
\* values to its first column (the last such line of a key decides), the
\* lines after a malformed line included, and no other line adds an entry
C26_TableOfTwoValueLines ==
    TableLoaded =>
        LET lines == rule_in.v
        IN /\ \A i \in 1..Len(lines) :
                 TwoValues(lines[i]) =>
                     /\ KeyOf(lines[i]) \in DOMAIN mapping_dict
                     /\ (\A j \in (i + 1)..Len(lines) :
                             ~(TwoValues(lines[j]) /\ KeyOf(lines[j]) = KeyOf(lines[i])))
                            => mapping_dict[KeyOf(lines[i])] = IdentityOf(lines[i])
           /\ \A key \in DOMAIN mapping_dict :
                 \E i \in 1..Len(lines) : TwoValues(lines[i]) /\ KeyOf(lines[i]) = key

\* ------------------------------------------------------------------------
\* Properties of the time point field
\* ------------------------------------------------------------------------
\* the value the default cookbook documents as a pattern
TimePointPattern ==
    <<"P", "a", "t", "i", "e", "n", "t", "I", "D", "_", "S", "t", "u", "d", "y", "D", "a", "t", "e", "T", "S", "t", "u", "d", "y", "T", "i", "m", "e", "_", "M", "o", "d", "a", "l", "i", "t", "y">>

\* PatientID_StudyDateTStudyTime_Modality of a record
TimePointOf(obj) ==
    obj[PATIENT_ID].val \o <<"_">> \o obj[TagOf("StudyDate")].val \o <<"T">>
    \o obj[TagOf("StudyTime")].val \o <<"_">> \o obj[TagOf("Modality")].val

\* the add step was the last step applied, with the pattern for the time point
TimePointAdded ==
    /\ rule_log # <<>>
    /\ rule_log[Len(rule_log)] = "tags_to_add"
    /\ "ClinicalTrialTimePointID" \in DOMAIN rule_cfg.add
    /\ rule_cfg.add["ClinicalTrialTimePointID"] = TimePointPattern

\* C27: with the documented pattern as its value, the add rule writes a
\* ClinicalTrialTimePointID made of the record's PatientID, StudyDate,
\* StudyTime and Modality
C27_TimePointComposed ==
    TimePointAdded =>
        rule_obj[TagOf("ClinicalTrialTimePointID")].val \in {TimePointOf(rule_obj), TimePointOf(rule_in)}

\* ------------------------------------------------------------------------
\* Properties of the registry and the counters
\* ------------------------------------------------------------------------
\* C28: in an anonymization run every step keeps the entries of the
\* registry, keys and identities, whatever becomes of the record whose
\* worker inserted them
C28_RegistryOnlyGrows ==
    [][mode = "anon" =>
          \A key \in DOMAIN anon_id_tracker :
              /\ key \in DOMAIN anon_id_tracker'
              /\ anon_id_tracker'[key] = anon_id_tracker[key]]_vars

\* a record's transformation failed after its subject key was registered,
\* and the entry still is the identity another record of the key was given
C28_Witness ==
    /\ mode = "anon"
    /\ \E f \in Files, g \in Files :
         /\ f # g
         /\ fpc[f] = "panicked" /\ ShortUidRecord(f)
         /\ fpc[g] = "handed"
         /\ SubjectKey(f) = SubjectKey(g)
         /\ anon_id_tracker[SubjectKey(f).v] = used_id[g]
         /\ Cardinality(DOMAIN anon_id_tracker) = 2

\* C29: the counters start at zero and never go down, a step counts one
\* file in one counter, each counter is the number of files that took its
\* branch, and the summary's failed and non-record counts together are at
\* most its total
C29_CountersExact ==
    /\ failed_case = 0 /\ non_dcm_cases = 0
    /\ [](/\ failed_case = Cardinality(FailedCounted)
          /\ non_dcm_cases = Cardinality({ f \in Files : fpc[f] = "non_record" })
          /\ (SummaryPrinted =>
                 /\ summary.failed = failed_case
                 /\ summary.non_dcm = non_dcm_cases
                 /\ summary.failed + summary.non_dcm <= summary.total))
    /\ [][/\ failed_case' >= failed_case
          /\ non_dcm_cases' >= non_dcm_cases
          /\ (failed_case' + non_dcm_cases') - (failed_case + non_dcm_cases) <= 1]_vars

C29_Witness ==
    /\ run = "done"
    /\ summary.failed = 1
    /\ summary.non_dcm = 2
    /\ summary.total = NumFiles

\* ------------------------------------------------------------------------
\* A run whose pool keeps working
\* ------------------------------------------------------------------------
\* par_iter().for_each hands every file to a pool thread, the pool runs every
\* job rayon::spawn queued, and the orchestrator goes on once for_each and
\* wg.wait() return: no step that stays possible is put off for ever.  The
\* substitution steps of a record are straight-line code that returns, unwinds
\* or exits, so a worker does not stay inside them for ever: a step of
\* anon_each_dcm_file or deid_file is possible exactly while its guard holds,
\* and taking it ends the guard
SpecLive ==
    /\ Init
    /\ [][Next]_vars
    /\ \A f \in Files :
         /\ WF_vars(copy_non_dicom_files(f))
         /\ WF_vars(anon_open(f))
         /\ WF_vars(anon_lock(f))
         /\ []<>~(run = "loop" /\ fpc[f] = "locked" /\ lock_holder = f)
         /\ []<>~(run = "loop" /\ fpc[f] = "todo" /\ Idle
                  /\ mode = "deid" /\ IsOk(all_files[f].dcm))
         /\ WF_vars(failed_case_copy(f))
         /\ WF_vars(write_check(f))
         /\ WF_vars(write_create(f))
    /\ WF_vars(loop_end)
    /\ WF_vars(wg_wait)

\* ------------------------------------------------------------------------
\* Properties of the barrier
\* ------------------------------------------------------------------------
\* a write task did not come to its end: its panic took the process down
WriteTaskLost == run = "aborted"

\* C31: every run eventually passes its barrier, provided each dispatched
\* write task terminates
C31_BarrierPassed == <>(run = "done" \/ WriteTaskLost)

\* ------------------------------------------------------------------------
\* Properties of the registry lock
\* ------------------------------------------------------------------------
\* the worker of file f is past the registry lookup and has not yet returned
\* from anon_each_dcm_file
InSubstitution(f) == fpc[f] = "locked"

\* C32: in an anonymization run at most one worker at a time is between the
\* registry lookup and the hand-off to the write stage, and it is the worker
\* that holds the registry lock: the lock is held through all the substitution
\* steps and given up only when the per-file function returns
C32_OneWorkerInSubstitution ==
    /\ Cardinality({ f \in Files : InSubstitution(f) }) <= 1
    /\ \A f \in Files : InSubstitution(f) <=> lock_holder = f

\* one worker is in its substitution steps while another, its PatientID read,
\* is blocked at the registry lock
C32_Witness ==
    /\ mode = "anon"
    /\ \E f, g \in Files : InSubstitution(f) /\ fpc[g] = "wait" /\ lock_holder = f

\* ------------------------------------------------------------------------
\* A run over records that lack one of the four identifiers
\* ------------------------------------------------------------------------
\* a file no decoder accepts, a full record, and one record for each name of
\* uid_tag_list that lacks the identifier of that name
IdentifierFiles ==
    << [file_name |-> <<"n", "o", "t", "e", "s", ".", "t", "x", "t">>, dcm |-> Err],
       [file_name |-> <<"I", "M", "1">>, dcm |-> Ok(Record(U1))] >>
    \o [i \in DOMAIN uid_tag_list |->
           [file_name |-> <<"I", "M", "4">>,
            dcm |-> Ok(remove_element(Record(U2), TagOf(uid_tag_list[i])))]]

\* the state after construction, the files drawn from IdentifierFiles
InitIdentifiers ==
    /\ RulesOff
    /\ mode \in {"anon", "deid"}
    /\ anon_prefix = <<>>
    /\ cookbook = DefaultCookbook
    /\ mapping_dict = RuleTable
    /\ all_files \in { [f \in Files |-> IdentifierFiles[idx[f]]] :
                         idx \in { i \in [Files -> DOMAIN IdentifierFiles] :
                                     \A f \in Files, g \in Files : f <= g => i[f] <= i[g] } }
    /\ run = "loop"
    /\ fpc = [f \in Files |-> "todo"]
    /\ anon_id_tracker = <<>>
    /\ lock_holder = 0
    /\ poisoned = FALSE
    /\ failed_case = 0
    /\ non_dcm_cases = 0
    /\ wg = 0
    /\ task = [f \in Files |-> NoTask]
    /\ fs = <<>>
    /\ clobbered = {}
    /\ used_id = [f \in Files |-> <<>>]
    /\ summary = NoSummary

SpecIdentifiers == InitIdentifiers /\ [][Next]_vars

\* ------------------------------------------------------------------------
\* Properties of a record that lacks an identifier
\* ------------------------------------------------------------------------
\* file f is a record without one of the four identifiers
LacksUid(f) ==
    /\ IsRecord(f)
    /\ \E n \in UidNames : TagOf(n) \notin DOMAIN all_files[f].dcm.v

\* a copy of file f lies under FAILED_CASES
FailedCopyOf(f) ==
    \E path \in DOMAIN fs :
        /\ fs[path] = f
        /\ BeginsWith(path, destination_path \o FAILED_CASES \o all_files[f].file_name)

\* C33: in an anonymization run a record that lacks one of SOPInstanceUID,
\* StudyInstanceUID, SeriesInstanceUID, FrameOfReferenceUID is a failed case:
\* no write task is ever dispatched for it, and once the loop is over the
\* original is a copy under FAILED_CASES and the failure counter has counted it
C33_MissingUidIsFileFailure ==
    mode = "anon" =>
        /\ \A f \in Files :
             LacksUid(f) =>
                 /\ task[f].st = "none"
                 /\ fpc[f] \notin {"handed", "skipped", "non_record"}
                 /\ (run \in {"waiting", "done"} => fpc[f] = "failed_copied" /\ FailedCopyOf(f))
        /\ failed_case = Cardinality(FailedCounted)
        /\ run \in {"waiting", "done"} => failed_case >= Cardinality({ f \in Files : LacksUid(f) })

\* the run is through: two records lacking different identifiers are failed
\* cases, both copied and counted, beside a record that was written although
\* it has none of the institution fields the masking step looks for
C33_Witness ==
    /\ mode = "anon" /\ run = "done"
    /\ \E f, g, h \in Files :
         /\ LacksUid(f) /\ LacksUid(g) /\ all_files[f] # all_files[g]
         /\ FailedCopyOf(f) /\ FailedCopyOf(g)
         /\ failed_case = 2
         /\ task[h].st = "done"
         /\ INSTITUTION_NAME \notin DOMAIN all_files[h].dcm.v

\* ------------------------------------------------------------------------
\* Properties of the generated identities
\* ------------------------------------------------------------------------
\* C34: within an anonymization run two distinct subject keys never have the
\* same substitute identity: the registry is injective
C34_RegistryInjective ==
    \A patient_id, other_id \in DOMAIN anon_id_tracker :
        patient_id # other_id => anon_id_tracker[patient_id] # anon_id_tracker[other_id]

\* ------------------------------------------------------------------------
\* Properties of the match field
\* ------------------------------------------------------------------------
\* the names parse_toml_cookbook takes as the match field
MatchNames == {"PatientID", "PatientName"}

\* C35: the match field of the loaded rule set is the configured name when
\* that name is PatientID or PatientName; for every other name, also one the
\* standard dictionary resolves, and for a missing matchid section it is
\* PatientID
C35_MatchFieldOrPatientID ==
    CookbookLoaded =>
        cookbook.match_id =
            (IF rule_cfg.matchid # <<>> /\ rule_cfg.matchid[1] \in MatchNames
             THEN rule_cfg.matchid[1]
             ELSE "PatientID")

\* a cookbook that names StudyID, a name of the dictionary, was loaded and the
\* match field is PatientID
C35_Witness ==
    /\ CookbookLoaded
    /\ rule_cfg.matchid = <<"StudyID">>
    /\ "StudyID" \in DictionaryNames
    /\ cookbook.match_id = "PatientID"

====
